---- MODULE Spec2Model ----
(***************************************************************************)
(* State-machine model of the reselling-catalog administration tool:      *)
(*  - the remote store (tables articles, lots, lot_items, family_members, *)
(*    user_profiles),                                                      *)
(*  - the catalog grid page (AdminUnifiedGridPage.tsx): local collections, *)
(*    selection, inline cell edit, bulk operations, duplicate,             *)
(*  - the analytics page's mark-sold and status-change handlers,           *)
(*  - the layout's set-default-seller handler.                             *)
(* Every asynchronous handler is a task: its closure values are captured   *)
(* when it starts and each await is a separate step, so that other         *)
(* handlers interleave exactly where the event loop lets them.             *)
(***************************************************************************)
EXTENDS Integers, Sequences, FiniteSets, TLC

\* null of a text, timestamp or reference column; null of a numeric column
NULL == "null"
NULLN == 0 - 1

\* ---------------------------------------------------------------- bounds
\* user events (clicks, keystrokes, blurs) in one behaviour of each page
MaxBulkEvents == 3
MaxEditEvents == 5
MaxCollideEvents == 3
MaxSaleEvents == 2
MaxSellerEvents == 3
MaxStatsEvents == 5
MaxEditorEvents == 4
\* page sizes the pagination is checked for
MaxPageSize == 3
\* days the analytics page stays open
MaxTicks == 1
MaxAnalyticsEvents == 1
MaxPageEvents == 2

\* ---------------------------------------------------------------- state
VARIABLES
    dbArticles,     \* remote table articles: id -> row
    dbLots,         \* remote table lots: id -> row
    dbLotItems,     \* remote table lot_items: set of <<lot_id, article_id>>
    nextId,         \* number of rows the remote store has created so far
    articles,       \* grid page state: id -> AdminArticleRow
    lots,           \* grid page state: id -> AdminLotRow
    selectedItems,  \* grid page state: set of ids
    editState,      \* grid page state: NoEdit or a UnifiedEditState
    focus,          \* the inline-edit input holds the keyboard focus
    itemsAll,       \* analytics page state: the rows it loaded, by kind
    family,         \* remote table family_members: seller id -> is_default
    profileDefault, \* remote user_profiles.default_seller_id
    defaultSeller,  \* layout state: the seller shown as default
    filters,        \* grid page state: type, status, seller, season, search
    sortColumn,     \* grid page state: "" or the column sorted by
    sortDirection,  \* grid page state: "asc" or "desc"
    currentPage,    \* grid page state: the page shown
    timeRange,      \* analytics page state: "7d", "30d", "90d" or "all"
    dateMode,       \* analytics page state: "created" or "sold"
    search,         \* analytics page state: the search box
    statusFilters,  \* analytics page state: the statuses ticked
    tablePage,      \* analytics page state: currentPage of the table
    period,         \* analytics page: the memoized window, or NoPeriod
    prevPeriod,     \* analytics page: the memoized previous window, or NoPeriod
    now,            \* the clock, in ticks; a range of N days is N ticks
    editHistory,    \* image editor state: the images, oldest first
    historyIndex,   \* image editor state: 0-based index into editHistory
    processing,     \* image editor state: an edit request is in flight
    imageCount,     \* images the edit service has produced so far
    tasks,          \* handlers in flight, each with the requests it issued
    budget,         \* user events still allowed in this behaviour
    last            \* the handler step that produced this state, with the
                    \* showToast calls it made

dbVars == <<dbArticles, dbLots, dbLotItems, nextId>>
gridVars == <<articles, lots, selectedItems, editState, focus>>
gridViewVars == <<filters, sortColumn, sortDirection, currentPage>>
analyticsVars == <<timeRange, dateMode, search, statusFilters, tablePage, period, prevPeriod,
                   now>>
editorVars == <<editHistory, historyIndex, processing, imageCount>>
viewVars == <<gridViewVars, analyticsVars, editorVars>>
otherVars == <<itemsAll, family, profileDefault, defaultSeller, viewVars>>
vars == <<dbArticles, dbLots, dbLotItems, nextId, articles, lots, selectedItems,
          editState, focus, itemsAll, family, profileDefault, defaultSeller,
          filters, sortColumn, sortDirection, currentPage,
          timeRange, dateMode, search, statusFilters, tablePage, period, prevPeriod, now,
          editHistory, historyIndex, processing, imageCount,
          tasks, budget, last>>

\* ---------------------------------------------------------------- rows
SaleCols == {"sold_at", "sold_price", "net_profit", "fees", "shipping_cost",
             "buyer_name", "sale_notes"}
NumCols == {"sold_price", "net_profit", "fees", "shipping_cost", "price"}
CommonCols == {"status", "seller_id", "season", "scheduled_for", "created_at",
               "published_at", "vinted_url", "reference_number", "price"} \cup SaleCols
ArticleCols == CommonCols \cup {"title", "brand", "sold_lot_id"}
LotCols == CommonCols \cup {"name"}

NullOf(col) == IF col \in NumCols THEN NULLN ELSE NULL

\* what the remote store fills in for a column the insert does not give
ColumnDefault(col) ==
    CASE col = "created_at" -> "now"
      [] col = "status" -> "draft"
      [] OTHER -> NullOf(col)

Restrict(f, S) == [x \in S |-> f[x]]
Without(f, S) == [x \in (DOMAIN f) \ S |-> f[x]]
Override(f, g) == [x \in (DOMAIN f) \cup (DOMAIN g) |-> IF x \in DOMAIN g THEN g[x] ELSE f[x]]

DraftRow(cols, label, text) ==
    [c \in cols |->
        CASE c = label -> text
          [] c = "status" -> "draft"
          [] c = "created_at" -> "t0"
          [] c = "reference_number" -> "REF"
          [] OTHER -> NullOf(c)]

SoldRow(cols, label, text) ==
    [c \in cols |->
        CASE c = label -> text
          [] c = "status" -> "sold"
          [] c = "created_at" -> "t0"
          [] c = "published_at" -> "t0"
          [] c = "vinted_url" -> "url"
          [] c = "reference_number" -> "REF"
          [] c = "sold_at" -> "t1"
          [] c = "sold_price" -> 50
          [] c = "fees" -> 5
          [] c = "shipping_cost" -> 3
          [] c = "net_profit" -> 42
          [] c = "buyer_name" -> "Bob"
          [] c = "sale_notes" -> "note"
          [] OTHER -> NullOf(c)]

\* the sample account: two articles and one lot that bundles the second
\* article; the lot's id is its own, or (the two tables reusing an
\* identifier) the id of the first article
ArticleIds == {"1", "2"}
DisjointLotIds == {"3"}
CollidingLotIds == {"1"}

Sellers == {"s1", "s2"}

NoEdit == [rowId |-> NULL, field |-> NULL, originalValue |-> NULL,
           isDirty |-> FALSE, isSaving |-> FALSE]
NoEvent == [h |-> "none", toasts |-> <<>>]

\* a text whose characters matter is a sequence of one-character strings;
\* NOTEXT is the null (or undefined) of such a text
NOTEXT == <<NULL>>
NoFilters == [type |-> "", status |-> "", seller |-> "", season |-> "", search |-> <<>>]
NoPeriod == [start |-> NULLN, end |-> NULLN]


\* ---------------------------------------------------------------- helpers
RemoveAt(s, i) == [k \in 1..(Len(s) - 1) |-> IF k < i THEN s[k] ELSE s[k + 1]]
ReplaceAt(s, i, e) == [s EXCEPT ![i] = e]

\* update(...).in('id', ids) / update(...).eq('id', id): the rows that exist
PatchRows(table, ids, col, val) ==
    [id \in DOMAIN table |->
        IF id \in ids /\ col \in DOMAIN table[id]
        THEN [table[id] EXCEPT ![col] = val] ELSE table[id]]

\* prev.map(row => row.id === id ? {...row, [col]: val} : row)
SetLocal(rows, ids, col, val) ==
    [id \in DOMAIN rows |->
        IF id \in ids THEN Override(rows[id], [c \in {col} |-> val]) ELSE rows[id]]

\* delete().in('id', ids) and prev.filter(row => !ids.includes(row.id))
DeleteRows(table, ids) == Without(table, ids)

\* the orders in which Array.from(selectedItems) can list a set of ids
OrdersOf(S) ==
    {q \in [1..Cardinality(S) -> S] : \A a, b \in 1..Cardinality(S) : a # b => q[a] # q[b]}

\* a request to the remote store, as issued
Request(verb, table, ids, cols) ==
    [verb |-> verb, table |-> table, ids |-> ids, cols |-> cols, res |-> "pending"]

Event(h, toastsShown) == [h |-> h, toasts |-> toastsShown]

\* ---------------------------------------------------------------- loadData
\* the columns the grid page selects from articles
ArticleSelect == {"title", "brand", "price", "season", "seller_id", "net_profit", "scheduled_for",
                  "sold_at", "status", "sold_price", "reference_number",
                  "vinted_url", "created_at"}

LotItemCount(items, lotId) == Cardinality({p \in items : p[1] = lotId})

LoadedArticles(dbA) == [id \in DOMAIN dbA |-> Restrict(dbA[id], ArticleSelect)]
LoadedLots(dbL, items) ==
    [id \in DOMAIN dbL |->
        Override(dbL[id], [c \in {"article_count"} |-> LotItemCount(items, id)])]

\* ---------------------------------------------------------------- unified view
UnifiedItems ==
    {[type |-> "article", id |-> id] : id \in DOMAIN articles}
        \cup {[type |-> "lot", id |-> id] : id \in DOMAIN lots}

\* the row field behind a unified field: lots keep their title in `name`
LotField(field) == IF field = "title" THEN "name" ELSE field
DbField(type, field) == IF type = "lot" /\ field = "title" THEN "name" ELSE field
TableOf(type) == IF type = "article" THEN "articles" ELSE "lots"

\* unifiedItems: title is article.title or lot.name, the rest is shared
UnifiedValueIn(arts, lts, item, field) ==
    IF item.type = "article" THEN arts[item.id][field]
    ELSE lts[item.id][IF field = "title" THEN "name" ELSE field]
UnifiedValue(item, field) == UnifiedValueIn(articles, lots, item, field)

\* ---------------------------------------------------------------- selection
\* A click on a checkbox or on a button of the bulk bar reaches its handler
\* after the blur of the inline-edit input, hence the ~focus guards.
\* the row is drawn selected when its id is in the set
IsSelected(item) == item.id \in selectedItems

HandleSelectItem(item, checked) ==
    /\ UNCHANGED otherVars
    /\ budget > 0
    /\ ~focus
    /\ item \in UnifiedItems
    /\ checked = ~IsSelected(item)
    /\ selectedItems' = IF checked THEN selectedItems \cup {item.id}
                        ELSE selectedItems \ {item.id}
    /\ budget' = budget - 1
    /\ last' = [h |-> "selectItem", toasts |-> <<>>, item |-> item, checked |-> checked]
    /\ UNCHANGED <<dbVars, articles, lots, editState, focus, tasks>>

HandleSelectAll(checked) ==
    /\ UNCHANGED otherVars
    /\ budget > 0
    /\ ~focus
    /\ selectedItems' = IF checked THEN {it.id : it \in UnifiedItems} ELSE {}
    /\ selectedItems' # selectedItems
    /\ budget' = budget - 1
    /\ last' = Event("selectAll", <<>>)
    /\ UNCHANGED <<dbVars, articles, lots, editState, focus, tasks>>

\* ---------------------------------------------------------------- bulk operations
BulkStatusArgs == {"sold"}
BulkSellerArgs == {"s1"}
BulkSeasonArgs == {"summer"}

PatchCol(op) ==
    CASE op = "status" -> "status"
      [] op = "seller" -> "seller_id"
      [] op = "season" -> "season"
      [] OTHER -> NULL

BulkVerb(op) == IF op = "delete" THEN "delete" ELSE "update"
BulkCols(op) == IF op = "delete" THEN {} ELSE {PatchCol(op)}

\* one request per selected item
BulkRequestsPerItem(op, articleIds, lotIds) ==
    LET qa == CHOOSE q \in OrdersOf(articleIds) : TRUE
        ql == CHOOSE q \in OrdersOf(lotIds) : TRUE
    IN [k \in 1..Len(qa) |-> Request(BulkVerb(op), "articles", {qa[k]}, BulkCols(op))]
       \o [k \in 1..Len(ql) |-> Request(BulkVerb(op), "lots", {ql[k]}, BulkCols(op))]

\* one batched request per kind that has a selected id
BulkRequests(op, articleIds, lotIds) ==
    (IF articleIds # {}
     THEN <<Request(BulkVerb(op), "articles", articleIds, BulkCols(op))>> ELSE <<>>)
    \o (IF lotIds # {}
        THEN <<Request(BulkVerb(op), "lots", lotIds, BulkCols(op))>> ELSE <<>>)

\* results.filter(r => r.error).length > 0
BulkFailedFirstOnly(reqs) == Len(reqs) > 0 /\ reqs[1].res = "err"
BulkFailed(reqs) == \E j \in 1..Len(reqs) : reqs[j].res = "err"
BulkSettled(reqs) == \A j \in 1..Len(reqs) : reqs[j].res # "pending"

BulkStart(op, arg) ==
    /\ UNCHANGED otherVars
    /\ budget > 0
    /\ ~focus
    /\ selectedItems # {}
    /\ LET articleIds == {id \in selectedItems : id \in DOMAIN articles}
           lotIds == {id \in selectedItems : id \in DOMAIN lots}
       IN tasks' = Append(tasks,
                [h |-> "bulk", op |-> op, arg |-> arg,
                 articleIds |-> articleIds, lotIds |-> lotIds,
                 reqs |-> BulkRequests(op, articleIds, lotIds)])
    /\ budget' = budget - 1
    /\ last' = Event("bulkStart", <<>>)
    /\ UNCHANGED <<dbVars, gridVars>>

HandleBulkDelete == BulkStart("delete", NULL)
HandleBulkStatusChange(newStatus) == BulkStart("status", newStatus)
HandleBulkSellerChange(sellerId) == BulkStart("seller", sellerId)
HandleBulkSeasonChange(season) == BulkStart("season", season)

\* the remote store applies one batched request of a bulk operation
BulkRemote(table, t, req) ==
    IF t.op = "delete" THEN DeleteRows(table, req.ids)
    ELSE PatchRows(table, req.ids, PatchCol(t.op), t.arg)

BulkResolve(i, j, ok) ==
    /\ UNCHANGED otherVars
    /\ i \in 1..Len(tasks)
    /\ tasks[i].h = "bulk"
    /\ j \in 1..Len(tasks[i].reqs)
    /\ tasks[i].reqs[j].res = "pending"
    /\ LET t == tasks[i]
           req == t.reqs[j]
       IN /\ tasks' = ReplaceAt(tasks, i,
                [t EXCEPT !.reqs[j].res = IF ok THEN "ok" ELSE "err"])
          /\ dbArticles' = IF ok /\ req.table = "articles"
                           THEN BulkRemote(dbArticles, t, req) ELSE dbArticles
          /\ dbLots' = IF ok /\ req.table = "lots"
                       THEN BulkRemote(dbLots, t, req) ELSE dbLots
    /\ last' = Event("bulkResolve", <<>>)
    /\ UNCHANGED <<dbLotItems, nextId, gridVars, budget>>

\* the handler resumes after await Promise.all(promises)
BulkDone(i) ==
    /\ UNCHANGED otherVars
    /\ i \in 1..Len(tasks)
    /\ tasks[i].h = "bulk"
    /\ BulkSettled(tasks[i].reqs)
    /\ LET t == tasks[i]
       IN IF BulkFailed(t.reqs)
          THEN /\ last' = [h |-> "bulkFailed", toasts |-> <<"error">>, op |-> t.op,
                           articleIds |-> t.articleIds, lotIds |-> t.lotIds,
                           results |-> [j \in 1..Len(t.reqs) |-> t.reqs[j].res]]
               /\ UNCHANGED <<articles, lots, selectedItems>>
          ELSE /\ articles' = IF t.op = "delete" THEN DeleteRows(articles, t.articleIds)
                              ELSE SetLocal(articles, t.articleIds, PatchCol(t.op), t.arg)
               /\ lots' = IF t.op = "delete" THEN DeleteRows(lots, t.lotIds)
                          ELSE SetLocal(lots, t.lotIds, PatchCol(t.op), t.arg)
               /\ selectedItems' = {}
               /\ last' = [h |-> "bulkApplied", toasts |-> <<"success">>, op |-> t.op,
                           articleIds |-> t.articleIds, lotIds |-> t.lotIds,
                           results |-> [j \in 1..Len(t.reqs) |-> t.reqs[j].res]]
    /\ tasks' = RemoveAt(tasks, i)
    /\ UNCHANGED <<dbVars, editState, focus, budget>>

\* ---------------------------------------------------------------- duplicate
\* the fields handleBulkDuplicate takes out of an article and out of a lot
\* before it spreads the rest into the insert
ArticleOmitted == {"id", "created_at", "published_at", "vinted_url", "sold_at",
                   "sold_price", "net_profit", "fees", "shipping_cost", "buyer_name",
                   "sale_notes", "reference_number"}
LotOmitted == {"id", "created_at", "published_at", "vinted_url", "sold_at",
               "sold_price", "net_profit", "reference_number"}

ArticleCopy(article) ==
    Override(Without(article, ArticleOmitted),
             [title |-> article.title \o " (Copie)", status |-> "draft",
              scheduled_for |-> NULL])
LotCopy(lot) ==
    Override(Without(lot, LotOmitted),
             [name |-> lot.name \o " (Copie)", status |-> "draft",
              scheduled_for |-> NULL])

\* insert(payload).select().single(): the row the remote store creates
InsertRow(cols, payload) ==
    [c \in cols |-> IF c \in DOMAIN payload THEN payload[c] ELSE ColumnDefault(c)]
NewId == "c" \o ToString(nextId + 1)

HandleBulkDuplicate ==
    /\ UNCHANGED otherVars
    /\ budget > 0
    /\ ~focus
    /\ selectedItems # {}
    /\ \E qa \in OrdersOf({id \in selectedItems : id \in DOMAIN articles}),
          ql \in OrdersOf({id \in selectedItems : id \in DOMAIN lots}) :
            tasks' = Append(tasks,
                [h |-> "dup",
                 arts |-> [k \in 1..Len(qa) |-> [id |-> qa[k], row |-> articles[qa[k]]]],
                 lots |-> [k \in 1..Len(ql) |-> [id |-> ql[k], row |-> lots[ql[k]]]],
                 nArts |-> Len(qa), nLots |-> Len(ql),
                 newLot |-> NULL, itemsRead |-> FALSE, lotItems |-> {},
                 reqs |-> <<>>])
    /\ budget' = budget - 1
    /\ last' = Event("dupStart", <<>>)
    /\ UNCHANGED <<dbVars, gridVars>>

Answered(req, ok) == [req EXCEPT !.res = IF ok THEN "ok" ELSE "err"]

\* catch: the handler ends with an error toast
DupAbort(i, h) ==
    /\ UNCHANGED otherVars
    /\ tasks' = RemoveAt(tasks, i)
    /\ last' = Event(h, <<"error">>)
    /\ UNCHANGED <<dbVars, gridVars, budget>>

\* await insert of the copy of the next article
DupInsertArticle(i, ok) ==
    /\ UNCHANGED otherVars
    /\ i \in 1..Len(tasks)
    /\ tasks[i].h = "dup"
    /\ tasks[i].arts # <<>>
    /\ LET t == tasks[i]
           src == Head(t.arts)
           payload == ArticleCopy(src.row)
           req == Answered(Request("insert", "articles", {}, DOMAIN payload), ok)
       IN IF ok
          THEN /\ dbArticles' = [id \in DOMAIN dbArticles \cup {NewId} |->
                                    IF id = NewId THEN InsertRow(ArticleCols, payload)
                                    ELSE dbArticles[id]]
               /\ nextId' = nextId + 1
               /\ tasks' = ReplaceAt(tasks, i,
                    [t EXCEPT !.arts = Tail(t.arts), !.reqs = Append(t.reqs, req)])
               /\ last' = [h |-> "dupInserted", toasts |-> <<>>, type |-> "article",
                           src |-> src.row, newId |-> NewId]
               /\ UNCHANGED <<dbLots, dbLotItems, gridVars, budget>>
          ELSE DupAbort(i, "dupFailed")

\* await insert of the copy of the next lot
DupInsertLot(i, ok) ==
    /\ UNCHANGED otherVars
    /\ i \in 1..Len(tasks)
    /\ tasks[i].h = "dup"
    /\ tasks[i].arts = <<>>
    /\ tasks[i].lots # <<>>
    /\ tasks[i].newLot = NULL
    /\ LET t == tasks[i]
           src == Head(t.lots)
           payload == LotCopy(src.row)
           req == Answered(Request("insert", "lots", {}, DOMAIN payload), ok)
       IN IF ok
          THEN /\ dbLots' = [id \in DOMAIN dbLots \cup {NewId} |->
                                IF id = NewId THEN InsertRow(LotCols, payload)
                                ELSE dbLots[id]]
               /\ nextId' = nextId + 1
               /\ tasks' = ReplaceAt(tasks, i,
                    [t EXCEPT !.newLot = NewId, !.reqs = Append(t.reqs, req)])
               /\ last' = [h |-> "dupInserted", toasts |-> <<>>, type |-> "lot",
                           src |-> src.row, newId |-> NewId]
               /\ UNCHANGED <<dbArticles, dbLotItems, gridVars, budget>>
          ELSE DupAbort(i, "dupFailed")

\* await select of the lot's lot_items; a lot without any is done
DupSelectLotItems(i, ok) ==
    /\ UNCHANGED otherVars
    /\ i \in 1..Len(tasks)
    /\ tasks[i].h = "dup"
    /\ tasks[i].newLot # NULL
    /\ ~tasks[i].itemsRead
    /\ LET t == tasks[i]
           found == {p[2] : p \in {q \in dbLotItems : q[1] = Head(t.lots).id}}
       IN IF ok
          THEN /\ tasks' = ReplaceAt(tasks, i,
                    IF found = {}
                    THEN [t EXCEPT !.lots = Tail(t.lots), !.newLot = NULL]
                    ELSE [t EXCEPT !.itemsRead = TRUE, !.lotItems = found])
               /\ last' = Event("dupLotItemsRead", <<>>)
               /\ UNCHANGED <<dbVars, gridVars, budget>>
          ELSE DupAbort(i, "dupFailedAfterLot")

\* await insert of the copied associations
DupInsertLotItems(i, ok) ==
    /\ UNCHANGED otherVars
    /\ i \in 1..Len(tasks)
    /\ tasks[i].h = "dup"
    /\ tasks[i].itemsRead
    /\ LET t == tasks[i]
           req == Answered(Request("insert", "lot_items", {}, {"lot_id", "article_id"}), ok)
       IN IF ok
          THEN /\ dbLotItems' = dbLotItems \cup {<<t.newLot, a>> : a \in t.lotItems}
               /\ tasks' = ReplaceAt(tasks, i,
                    [t EXCEPT !.lots = Tail(t.lots), !.newLot = NULL,
                              !.itemsRead = FALSE, !.lotItems = {},
                              !.reqs = Append(t.reqs, req)])
               /\ last' = Event("dupLotItemsInserted", <<>>)
               /\ UNCHANGED <<dbArticles, dbLots, nextId, gridVars, budget>>
          ELSE DupAbort(i, "dupFailedAfterLot")

\* await loadData(), which catches its own failure, then the success toast
DupLoad(i, ok) ==
    /\ UNCHANGED otherVars
    /\ i \in 1..Len(tasks)
    /\ tasks[i].h = "dup"
    /\ tasks[i].arts = <<>>
    /\ tasks[i].lots = <<>>
    /\ articles' = IF ok THEN LoadedArticles(dbArticles) ELSE articles
    /\ lots' = IF ok THEN LoadedLots(dbLots, dbLotItems) ELSE lots
    /\ selectedItems' = {}
    /\ last' = [h |-> "dupDone",
                toasts |-> IF ok THEN <<"success">> ELSE <<"error", "success">>,
                fetch |-> IF ok THEN "ok" ELSE "err"]
    /\ tasks' = RemoveAt(tasks, i)
    /\ UNCHANGED <<dbVars, editState, focus, budget>>

\* ---------------------------------------------------------------- inline cell edit
EditFields == {"title", "status"}
TypedValues(field) == IF field = "title" THEN {"Jacket", "Veste"} ELSE {"draft", "sold"}

\* isEditing && editState.field === field: the row draws the input
InputRendered(item, field) ==
    /\ item \in UnifiedItems
    /\ editState.rowId # NULL
    /\ editState.rowId = item.id
    /\ editState.field = field

\* the cell is clicked: it is drawn as text and no input holds the focus
StartEdit(item, field) ==
    /\ UNCHANGED otherVars
    /\ budget > 0
    /\ item \in UnifiedItems
    /\ field \in EditFields
    /\ ~InputRendered(item, field)
    /\ ~focus
    /\ editState' = [rowId |-> item.id, field |-> field,
                     originalValue |-> UnifiedValue(item, field),
                     isDirty |-> FALSE, isSaving |-> FALSE]
    /\ focus' = TRUE
    /\ budget' = budget - 1
    /\ last' = [h |-> "startEdit", toasts |-> <<>>, item |-> item, field |-> field]
    /\ UNCHANGED <<dbVars, articles, lots, selectedItems, tasks>>

\* setArticles / setLots of handleChange, saveCell's catch and cancelEdit:
\* the rows of `type` after the field of the item is set to value
WithField(type, rows, item, field, value) ==
    IF item.type # type THEN rows
    ELSE IF type = "article" THEN SetLocal(rows, {item.id}, field, value)
    ELSE SetLocal(rows, {item.id}, LotField(field), value)

HandleChange(item, field, value) ==
    /\ UNCHANGED otherVars
    /\ budget > 0
    /\ InputRendered(item, field)
    /\ focus
    /\ value # UnifiedValue(item, field)
    /\ articles' = WithField("article", articles, item, field, value)
    /\ lots' = WithField("lot", lots, item, field, value)
    /\ editState' = IF editState.rowId # NULL /\ editState.rowId = item.id
                       /\ editState.field = field
                    THEN [editState EXCEPT !.isDirty = TRUE] ELSE editState
    /\ budget' = budget - 1
    /\ last' = Event("handleChange", <<>>)
    /\ UNCHANGED <<dbVars, selectedItems, focus, tasks>>

\* !editState || !editState.isDirty
NothingToSaveUnlessEdit(es) == es.rowId = NULL
NothingToSave(es) == es.rowId = NULL \/ ~es.isDirty

\* saveCell, called by blur and by Enter, up to its await
SaveCell(item, field, key) ==
    /\ UNCHANGED otherVars
    /\ budget > 0
    /\ InputRendered(item, field)
    /\ focus
    /\ budget' = budget - 1
    /\ IF NothingToSave(editState)
       THEN /\ editState' = NoEdit
            /\ focus' = FALSE
            /\ last' = [h |-> "saveDiscarded", toasts |-> <<>>, item |-> item, field |-> field,
                        originalValue |-> editState.originalValue,
                        value |-> UnifiedValue(item, field), issued |-> <<>>]
            /\ UNCHANGED tasks
       ELSE LET dbField == DbField(item.type, field)
                rows == IF item.type = "article" THEN articles ELSE lots
                updateValue == rows[item.id][dbField]
            IN /\ editState' = [editState EXCEPT !.isSaving = TRUE]
               /\ focus' = (key = "Enter")
               /\ tasks' = Append(tasks,
                    [h |-> "save", item |-> item, field |-> field,
                     updateValue |-> updateValue,
                     originalValue |-> editState.originalValue,
                     reqs |-> <<Request("update", TableOf(item.type), {item.id}, {dbField})>>])
               /\ last' = [h |-> "saveIssued", toasts |-> <<>>, item |-> item, field |-> field,
                           originalValue |-> editState.originalValue,
                           value |-> UnifiedValue(item, field),
                           issued |-> <<Request("update", TableOf(item.type), {item.id}, {dbField})>>]
    /\ UNCHANGED <<dbVars, articles, lots, selectedItems>>

\* what saveCell's catch writes back: the closure's editState.originalValue
RollbackValueAttempted(t) == t.updateValue
RollbackValue(t) == t.originalValue

\* the remote store answers the update and saveCell resumes
SaveDone(i, ok) ==
    /\ UNCHANGED otherVars
    /\ i \in 1..Len(tasks)
    /\ tasks[i].h = "save"
    /\ LET t == tasks[i]
           col == CHOOSE c \in t.reqs[1].cols : TRUE
       IN IF ok
          THEN /\ dbArticles' = IF t.reqs[1].table = "articles"
                                THEN PatchRows(dbArticles, t.reqs[1].ids, col, t.updateValue)
                                ELSE dbArticles
               /\ dbLots' = IF t.reqs[1].table = "lots"
                            THEN PatchRows(dbLots, t.reqs[1].ids, col, t.updateValue)
                            ELSE dbLots
               /\ last' = [h |-> "saveOk", toasts |-> <<"success">>, item |-> t.item,
                           field |-> t.field, originalValue |-> t.originalValue,
                           updateValue |-> t.updateValue]
               /\ UNCHANGED <<articles, lots>>
          ELSE /\ articles' = WithField("article", articles, t.item, t.field, RollbackValue(t))
               /\ lots' = WithField("lot", lots, t.item, t.field, RollbackValue(t))
               /\ last' = [h |-> "saveFailed", toasts |-> <<"error">>, item |-> t.item,
                           field |-> t.field, originalValue |-> t.originalValue,
                           updateValue |-> t.updateValue]
               /\ UNCHANGED <<dbArticles, dbLots>>
    /\ editState' = NoEdit
    /\ focus' = FALSE
    /\ tasks' = RemoveAt(tasks, i)
    /\ UNCHANGED <<dbLotItems, nextId, selectedItems, budget>>

\* cancelEdit's setArticles / setLots: back to editState.originalValue
CancelRowsIfClean(type, rows, item, field) ==
    IF editState.isDirty THEN rows
    ELSE WithField(type, rows, item, field, editState.originalValue)
CancelRows(type, rows, item, field) ==
    IF editState.rowId # NULL
    THEN WithField(type, rows, item, field, editState.originalValue) ELSE rows

\* Escape
CancelEdit(item, field) ==
    /\ UNCHANGED otherVars
    /\ budget > 0
    /\ InputRendered(item, field)
    /\ focus
    /\ articles' = CancelRows("article", articles, item, field)
    /\ lots' = CancelRows("lot", lots, item, field)
    /\ editState' = NoEdit
    /\ focus' = FALSE
    /\ budget' = budget - 1
    /\ last' = [h |-> "cancelEdit", toasts |-> <<>>, item |-> item, field |-> field,
                originalValue |-> editState.originalValue, isDirty |-> editState.isDirty]
    /\ UNCHANGED <<dbVars, selectedItems, tasks>>

\* ---------------------------------------------------------------- analytics page
\* what the sale form hands to handleSoldSave
SaleInputs == {[soldPrice |-> 50, fees |-> 5, shippingCost |-> 3, soldAt |-> "t2",
                buyerName |-> "Ann", notes |-> "fast", sellerId |-> NULL],
               [soldPrice |-> 20, fees |-> 0, shippingCost |-> 0, soldAt |-> "t3",
                buyerName |-> NULL, notes |-> NULL, sellerId |-> "s2"]}
StatusArgs == {"sold", "draft"}

\* the rows the drawer can be opened on
DrawerItems ==
    {[kind |-> "article", id |-> id] : id \in DOMAIN itemsAll.article}
        \cup {[kind |-> "lot", id |-> id] : id \in DOMAIN itemsAll.lot}

KindTable(kind) == IF kind = "article" THEN "articles" ELSE "lots"

\* netProfit without the shipping cost
UpdateDataGross(saleData) ==
    [status |-> "sold",
     sold_price |-> saleData.soldPrice,
     sold_at |-> saleData.soldAt,
     fees |-> saleData.fees,
     shipping_cost |-> saleData.shippingCost,
     buyer_name |-> saleData.buyerName,
     sale_notes |-> saleData.notes,
     net_profit |-> saleData.soldPrice - saleData.fees]
        @@ (IF saleData.sellerId # NULL THEN [seller_id |-> saleData.sellerId] ELSE <<>>)

UpdateData(saleData) ==
    [status |-> "sold",
     sold_price |-> saleData.soldPrice,
     sold_at |-> saleData.soldAt,
     fees |-> saleData.fees,
     shipping_cost |-> saleData.shippingCost,
     buyer_name |-> saleData.buyerName,
     sale_notes |-> saleData.notes,
     net_profit |-> saleData.soldPrice - saleData.fees - saleData.shippingCost]
        @@ (IF saleData.sellerId # NULL THEN [seller_id |-> saleData.sellerId] ELSE <<>>)

\* update(data).eq('id', id) / .in('id', ids): every given column of the rows
PatchAll(table, ids, data) ==
    [id \in DOMAIN table |->
        IF id \in ids
        THEN [c \in DOMAIN table[id] |-> IF c \in DOMAIN data THEN data[c] ELSE table[id][c]]
        ELSE table[id]]

\* setItemsAll(unified) of loadAll
LoadAll(dbA, dbL) == [article |-> dbA, lot |-> dbL]

\* catch of handleSoldSave and of handleStatusSave: one error toast
SaleAbort(i, h) ==
    /\ tasks' = RemoveAt(tasks, i)
    /\ last' = [h |-> h, toasts |-> <<"error">>, item |-> tasks[i].item,
                results |-> [j \in 1..Len(tasks[i].reqs) |-> tasks[i].reqs[j].res]]
    /\ UNCHANGED <<dbVars, gridVars, otherVars, budget>>

HandleSoldSave(drawerItem, saleData) ==
    /\ budget > 0
    /\ drawerItem \in DrawerItems
    /\ tasks' = Append(tasks,
            [h |-> "sold", item |-> drawerItem, data |-> UpdateData(saleData),
             sale |-> saleData, pc |-> "primary", lotItems |-> {},
             reqs |-> <<Request("update", KindTable(drawerItem.kind), {drawerItem.id},
                                DOMAIN UpdateData(saleData))>>])
    /\ budget' = budget - 1
    /\ last' = Event("soldStart", <<>>)
    /\ UNCHANGED <<dbVars, gridVars, otherVars>>

\* where handleSoldSave goes after the write of the item itself
AfterPrimaryUnchecked(kind, ok) == IF kind = "lot" THEN "lotItems" ELSE "load"
AfterPrimary(kind, ok) ==
    IF ~ok THEN "catch" ELSE IF kind = "lot" THEN "lotItems" ELSE "load"

\* the remote store answers the write of the item itself
SoldPrimary(i, ok) ==
    /\ i \in 1..Len(tasks)
    /\ tasks[i].h = "sold"
    /\ tasks[i].pc = "primary"
    /\ LET t == tasks[i]
           answered == [t EXCEPT !.reqs[1].res = IF ok THEN "ok" ELSE "err"]
       IN /\ dbArticles' = IF ok /\ t.item.kind = "article"
                           THEN PatchAll(dbArticles, {t.item.id}, t.data) ELSE dbArticles
          /\ dbLots' = IF ok /\ t.item.kind = "lot"
                       THEN PatchAll(dbLots, {t.item.id}, t.data) ELSE dbLots
          /\ IF AfterPrimary(t.item.kind, ok) = "catch"
             THEN /\ tasks' = RemoveAt(tasks, i)
                  /\ last' = [h |-> "soldFailed", toasts |-> <<"error">>, item |-> t.item,
                              results |-> <<"err">>]
             ELSE /\ tasks' = ReplaceAt(tasks, i,
                                [answered EXCEPT !.pc = AfterPrimary(t.item.kind, ok)])
                  /\ last' = [h |-> "soldPrimary", toasts |-> <<>>, item |-> t.item,
                              results |-> <<answered.reqs[1].res>>, sale |-> t.sale]
    /\ UNCHANGED <<dbLotItems, nextId, gridVars, otherVars, budget>>

\* the remote store answers the select of the lot's lot_items; with some,
\* the cascade write is issued
SoldSelectLotItems(i, ok) ==
    /\ i \in 1..Len(tasks)
    /\ tasks[i].h = "sold"
    /\ tasks[i].pc = "lotItems"
    /\ LET t == tasks[i]
           found == {p[2] : p \in {q \in dbLotItems : q[1] = t.item.id}}
       IN IF ok
          THEN /\ tasks' = ReplaceAt(tasks, i,
                    IF found = {} THEN [t EXCEPT !.pc = "load"]
                    ELSE [t EXCEPT !.pc = "cascade", !.lotItems = found,
                                   !.reqs = Append(t.reqs,
                                        Request("update", "articles", found,
                                                {"status", "sold_lot_id"}))])
               /\ last' = [h |-> "soldLotItemsRead", toasts |-> <<>>, item |-> t.item,
                           results |-> <<t.reqs[1].res>>]
               /\ UNCHANGED <<dbVars, gridVars, otherVars, budget>>
          ELSE SaleAbort(i, "soldFailed")

\* the remote store answers the cascade write
SoldCascade(i, ok) ==
    /\ i \in 1..Len(tasks)
    /\ tasks[i].h = "sold"
    /\ tasks[i].pc = "cascade"
    /\ LET t == tasks[i]
       IN IF ok
          THEN /\ dbArticles' = PatchAll(dbArticles, t.lotItems,
                                    [status |-> "vendu_en_lot", sold_lot_id |-> t.item.id])
               /\ tasks' = ReplaceAt(tasks, i,
                                [t EXCEPT !.pc = "load", !.reqs[2].res = "ok"])
               /\ last' = [h |-> "soldCascadeOk", toasts |-> <<>>, item |-> t.item,
                           results |-> <<t.reqs[1].res, "ok">>]
               /\ UNCHANGED <<dbLots, dbLotItems, nextId, gridVars, otherVars, budget>>
          ELSE /\ tasks' = RemoveAt(tasks, i)
               /\ last' = [h |-> "soldCascadeFailed", toasts |-> <<"error">>,
                           item |-> t.item, results |-> <<t.reqs[1].res, "err">>]
               /\ UNCHANGED <<dbVars, gridVars, otherVars, budget>>

\* await loadAll(), which catches its own failure, then the success toast
SaleLoad(i, ok) ==
    /\ i \in 1..Len(tasks)
    /\ tasks[i].h \in {"sold", "status"}
    /\ tasks[i].pc = "load"
    /\ itemsAll' = IF ok THEN LoadAll(dbArticles, dbLots) ELSE itemsAll
    /\ tasks' = RemoveAt(tasks, i)
    /\ last' = [h |-> "saleDone", toasts |-> <<"success">>, item |-> tasks[i].item,
                results |-> [j \in 1..Len(tasks[i].reqs) |-> tasks[i].reqs[j].res],
                fetch |-> IF ok THEN "ok" ELSE "err"]
    /\ UNCHANGED <<dbVars, gridVars, family, profileDefault, defaultSeller, viewVars, budget>>

HandleStatusSave(drawerItem, newStatus) ==
    /\ budget > 0
    /\ drawerItem \in DrawerItems
    /\ tasks' = Append(tasks,
            [h |-> "status", item |-> drawerItem, data |-> [status |-> newStatus],
             pc |-> "write", lotItems |-> {},
             reqs |-> <<Request("update", KindTable(drawerItem.kind), {drawerItem.id},
                                {"status"})>>])
    /\ budget' = budget - 1
    /\ last' = Event("statusStart", <<>>)
    /\ UNCHANGED <<dbVars, gridVars, otherVars>>

\* the remote store answers the status write
StatusWrite(i, ok) ==
    /\ i \in 1..Len(tasks)
    /\ tasks[i].h = "status"
    /\ tasks[i].pc = "write"
    /\ LET t == tasks[i]
       IN IF ok
          THEN /\ dbArticles' = IF t.item.kind = "article"
                                THEN PatchAll(dbArticles, {t.item.id}, t.data) ELSE dbArticles
               /\ dbLots' = IF t.item.kind = "lot"
                            THEN PatchAll(dbLots, {t.item.id}, t.data) ELSE dbLots
               /\ tasks' = ReplaceAt(tasks, i, [t EXCEPT !.pc = "load", !.reqs[1].res = "ok"])
               /\ last' = [h |-> "statusWritten", toasts |-> <<>>, item |-> t.item,
                           results |-> <<"ok">>]
               /\ UNCHANGED <<dbLotItems, nextId, gridVars, otherVars, budget>>
          ELSE SaleAbort(i, "statusFailed")

\* ---------------------------------------------------------------- default seller
SetDefaultSellerHandler(sellerId) ==
    /\ budget > 0
    /\ sellerId \in Sellers
    /\ tasks' = Append(tasks, [h |-> "seller", sellerId |-> sellerId, pc |-> "clear",
                               reqs |-> <<>>])
    /\ budget' = budget - 1
    /\ last' = Event("sellerStart", <<>>)
    /\ UNCHANGED <<dbVars, gridVars, otherVars>>

\* await update({is_default: false}).eq(user_id): the result is not looked at
SellerClear(i, ok) ==
    /\ i \in 1..Len(tasks)
    /\ tasks[i].h = "seller"
    /\ tasks[i].pc = "clear"
    /\ family' = IF ok THEN [m \in Sellers |-> FALSE] ELSE family
    /\ tasks' = ReplaceAt(tasks, i,
            [tasks[i] EXCEPT !.pc = "set",
                !.reqs = Append(@, Answered(Request("update", "family_members", Sellers,
                                                    {"is_default"}), ok))])
    /\ last' = Event("sellerClear", <<>>)
    /\ UNCHANGED <<dbVars, gridVars, itemsAll, profileDefault, defaultSeller, viewVars, budget>>

\* await update({is_default: true}).eq(id): the result is not looked at
SellerSet(i, ok) ==
    /\ i \in 1..Len(tasks)
    /\ tasks[i].h = "seller"
    /\ tasks[i].pc = "set"
    /\ family' = IF ok THEN [family EXCEPT ![tasks[i].sellerId] = TRUE] ELSE family
    /\ tasks' = ReplaceAt(tasks, i,
            [tasks[i] EXCEPT !.pc = "profile",
                !.reqs = Append(@, Answered(Request("update", "family_members",
                                                    {tasks[i].sellerId}, {"is_default"}), ok))])
    /\ last' = Event("sellerSet", <<>>)
    /\ UNCHANGED <<dbVars, gridVars, itemsAll, profileDefault, defaultSeller, viewVars, budget>>

\* await update({default_seller_id}) of user_profiles, then setDefaultSeller
SellerProfile(i, ok) ==
    /\ i \in 1..Len(tasks)
    /\ tasks[i].h = "seller"
    /\ tasks[i].pc = "profile"
    /\ profileDefault' = IF ok THEN tasks[i].sellerId ELSE profileDefault
    /\ defaultSeller' = IF ok THEN tasks[i].sellerId ELSE defaultSeller
    /\ tasks' = RemoveAt(tasks, i)
    /\ last' = Event(IF ok THEN "sellerDone" ELSE "sellerFailed", <<>>)
    /\ UNCHANGED <<dbVars, gridVars, itemsAll, family, viewVars, budget>>

\* ---------------------------------------------------------------- analytics scope
\* the clock counts days; the pages mount at Today
Today == 100

GetRangeDays(r) ==
    CASE r = "7d" -> 7
      [] r = "30d" -> 30
      [] r = "90d" -> 90
      [] OTHER -> NULLN

\* getCutoffDate(range, 0) called at clock t
GetCutoffDate(range, t) ==
    IF GetRangeDays(range) = NULLN THEN NoPeriod
    ELSE [start |-> t - GetRangeDays(range), end |-> t]

\* getCutoffDate(range, offsetPeriods) called at clock t
GetCutoffDateAt(range, offsetPeriods, t) ==
    IF GetRangeDays(range) = NULLN THEN NoPeriod
    ELSE LET end == t - offsetPeriods * GetRangeDays(range)
         IN [start |-> end - GetRangeDays(range), end |-> end]

\* ---------------------------------------------------------------- grid view
\* ITEMS_PER_PAGE is 10 in the page; the sample account has three rows, so
\* the page size is scaled down with it to have more than one page
ITEMS_PER_PAGE == 2

Min(a, b) == IF a < b THEN a ELSE b
Max(a, b) == IF a > b THEN a ELSE b

\* String.prototype.toLowerCase over the sample alphabet
LowerChar(ch) ==
    CASE ch = "A" -> "a"
      [] ch = "B" -> "b"
      [] ch = "R" -> "r"
      [] ch = "S" -> "s"
      [] OTHER -> ch
ToLowerCase(text) == [k \in 1..Len(text) |-> LowerChar(text[k])]

\* String.prototype.includes
Includes(text, q) ==
    \E off \in 0..(Len(text) - Len(q)) : \A k \in 1..Len(q) : text[off + k] = q[k]

\* the order in which the store returns the rows of a table
IdOrder == <<"1", "2", "3">>

\* the entry of unifiedItems made from an article and from a lot
ArticleItem(id, article) ==
    [id |-> id, type |-> "article",
     title |-> IF article.title = NOTEXT THEN <<>> ELSE article.title,
     brand |-> IF article.brand = <<>> THEN NOTEXT ELSE article.brand,
     price |-> article.price,
     status |-> article.status,
     season |-> article.season,
     seller_id |-> article.seller_id,
     reference_number |-> IF article.reference_number = <<>> THEN NOTEXT
                          ELSE article.reference_number]
LotItem(id, lot) ==
    [id |-> id, type |-> "lot",
     title |-> lot.name,
     brand |-> NOTEXT,
     price |-> lot.price,
     status |-> lot.status,
     season |-> lot.season,
     seller_id |-> lot.seller_id,
     reference_number |-> IF lot.reference_number = <<>> THEN NOTEXT
                          ELSE lot.reference_number]

\* unifiedItems as a list: the articles, then the lots
UnifiedList ==
    LET isArticle(id) == id \in DOMAIN articles
        isLot(id) == id \in DOMAIN lots
        qa == SelectSeq(IdOrder, isArticle)
        ql == SelectSeq(IdOrder, isLot)
    IN [k \in 1..Len(qa) |-> ArticleItem(qa[k], articles[qa[k]])]
       \o [k \in 1..Len(ql) |-> LotItem(ql[k], lots[ql[k]])]

\* the search predicate of the grid page
SearchHitAnyCase(item, searchLower) ==
    \/ Includes(item.title, searchLower)
    \/ (item.brand # NOTEXT /\ Includes(item.brand, searchLower))
    \/ (item.reference_number # NOTEXT /\ Includes(item.reference_number, searchLower))
SearchHit(item, searchLower) ==
    \/ Includes(ToLowerCase(item.title), searchLower)
    \/ (item.brand # NOTEXT /\ Includes(ToLowerCase(item.brand), searchLower))
    \/ (item.reference_number # NOTEXT
          /\ Includes(ToLowerCase(item.reference_number), searchLower))

\* the filter steps of filteredItems, one after the other
FilterStepsNoSeason(list, f) ==
    LET byType(item) == item.type = f.type
        byStatus(item) == item.status = f.status
        bySeller(item) == item.seller_id = f.seller
        bySearch(item) == SearchHit(item, ToLowerCase(f.search))
        s1 == IF f.type # "" THEN SelectSeq(list, byType) ELSE list
        s2 == IF f.status # "" THEN SelectSeq(s1, byStatus) ELSE s1
        s3 == IF f.seller # "" THEN SelectSeq(s2, bySeller) ELSE s2
    IN IF f.search # <<>> THEN SelectSeq(s3, bySearch) ELSE s3
FilterSteps(list, f) ==
    LET byType(item) == item.type = f.type
        byStatus(item) == item.status = f.status
        bySeller(item) == item.seller_id = f.seller
        bySeason(item) == item.season = f.season
        bySearch(item) == SearchHit(item, ToLowerCase(f.search))
        s1 == IF f.type # "" THEN SelectSeq(list, byType) ELSE list
        s2 == IF f.status # "" THEN SelectSeq(s1, byStatus) ELSE s1
        s3 == IF f.seller # "" THEN SelectSeq(s2, bySeller) ELSE s2
        s4 == IF f.season # "" THEN SelectSeq(s3, bySeason) ELSE s3
    IN IF f.search # <<>> THEN SelectSeq(s4, bySearch) ELSE s4

\* aVal == null
IsNullValue(col, v) == v = (IF col \in NumCols THEN NULLN ELSE NULL)

\* String.prototype.localeCompare over the sample statuses and types
Collation == [article |-> 1, draft |-> 2, lot |-> 3, sold |-> 4]
LocaleCompare(a, b) ==
    IF Collation[a] < Collation[b] THEN 0 - 1 ELSE IF Collation[a] > Collation[b] THEN 1 ELSE 0

\* the comparator handed to items.sort
CompareItems(a, b, col, dir) ==
    LET aVal == a[col]
        bVal == b[col]
    IN IF IsNullValue(col, aVal) /\ IsNullValue(col, bVal) THEN 0
       ELSE IF IsNullValue(col, aVal) THEN (IF dir = "asc" THEN 1 ELSE 0 - 1)
       ELSE IF IsNullValue(col, bVal) THEN (IF dir = "asc" THEN 0 - 1 ELSE 1)
       ELSE IF col \in NumCols THEN (IF dir = "asc" THEN aVal - bVal ELSE bVal - aVal)
       ELSE IF dir = "asc" THEN LocaleCompare(aVal, bVal) ELSE LocaleCompare(bVal, aVal)

\* Array.prototype.sort, which is stable: each element goes behind the last
\* element it does not come before
RECURSIVE SortItems(_, _, _)
SortItems(list, col, dir) ==
    IF list = <<>> THEN <<>>
    ELSE LET front == SortItems(SubSeq(list, 1, Len(list) - 1), col, dir)
             x == list[Len(list)]
             keep == {k \in 1..Len(front) : CompareItems(front[k], x, col, dir) <= 0}
             at == IF keep = {} THEN 0 ELSE CHOOSE k \in keep : \A m \in keep : m <= k
         IN SubSeq(front, 1, at) \o <<x>> \o SubSeq(front, at + 1, Len(front))

FilteredItemsOf(list, f, col, dir) ==
    IF col # "" THEN SortItems(FilterSteps(list, f), col, dir) ELSE FilterSteps(list, f)
FilteredItems == FilteredItemsOf(UnifiedList, filters, sortColumn, sortDirection)

\* filteredItems.slice(start, start + size)
Paginate(list, page, size) ==
    LET start == (page - 1) * size
    IN IF start >= Len(list) THEN <<>>
       ELSE SubSeq(list, start + 1, Min(start + size, Len(list)))
PaginatedItems == Paginate(FilteredItems, currentPage, ITEMS_PER_PAGE)

\* Math.max(1, Math.ceil(length / size))
TotalPagesFloor(length, size) == Max(1, length \div size)
TotalPages(length, size) == Max(1, (length + size - 1) \div size)

\* the values the filter controls and the search box can give
TypeOptions == {"article", "lot"}
StatusOptions == {"sold"}
SellerOptions == {"s1"}
SeasonOptions == {"summer"}
SearchTexts == {<<"a">>, <<"A", "B">>, <<"b", "r">>}
SortColumns == {"price", "status"}

ViewEvent(h) == [h |-> h, toasts |-> <<>>]
ViewFrame == UNCHANGED <<dbVars, gridVars, itemsAll, family, profileDefault, defaultSeller,
                         editorVars,
                         analyticsVars, tasks, budget>>

\* the search box
SetSearch(text) ==
    /\ text # filters.search
    /\ filters' = [filters EXCEPT !.search = text]
    /\ currentPage' = 1
    /\ last' = ViewEvent("setSearch")
    /\ UNCHANGED <<sortColumn, sortDirection>>
    /\ ViewFrame

\* the X button inside the search box
ClearSearch ==
    /\ filters.search # <<>>
    /\ filters' = [filters EXCEPT !.search = <<>>]
    /\ last' = ViewEvent("clearSearch")
    /\ UNCHANGED <<sortColumn, sortDirection, currentPage>>
    /\ ViewFrame

\* "Reinitialiser les filtres"
ResetFilters ==
    /\ filters.type # "" \/ filters.status # "" \/ filters.seller # "" \/ filters.season # ""
    /\ filters' = [NoFilters EXCEPT !.search = filters.search]
    /\ currentPage' = 1
    /\ last' = ViewEvent("resetFilters")
    /\ UNCHANGED <<sortColumn, sortDirection>>
    /\ ViewFrame

\* the four selects
SetFilter(dim, value) ==
    /\ value # filters[dim]
    /\ filters' = [filters EXCEPT ![dim] = value]
    /\ currentPage' = 1
    /\ last' = ViewEvent("setFilter")
    /\ UNCHANGED <<sortColumn, sortDirection>>
    /\ ViewFrame

HandleSort(column) ==
    /\ IF sortColumn = column
       THEN /\ sortDirection' = (IF sortDirection = "asc" THEN "desc" ELSE "asc")
            /\ UNCHANGED sortColumn
       ELSE /\ sortColumn' = column
            /\ sortDirection' = "asc"
    /\ last' = ViewEvent("handleSort")
    /\ UNCHANGED <<filters, currentPage>>
    /\ ViewFrame

\* the pagination buttons: first, previous, a page number, next, last
GoToPage(button, pageNum) ==
    /\ LET totalPages == TotalPages(Len(FilteredItems), ITEMS_PER_PAGE)
       IN /\ pageNum \in 1..totalPages
          /\ currentPage' =
                CASE button = "first" -> 1
                  [] button = "previous" -> Max(1, currentPage - 1)
                  [] button = "number" -> pageNum
                  [] button = "next" -> Min(totalPages, currentPage + 1)
                  [] button = "last" -> totalPages
    /\ currentPage' # currentPage
    /\ last' = ViewEvent("goToPage")
    /\ UNCHANGED <<filters, sortColumn, sortDirection>>
    /\ ViewFrame

\* ---------------------------------------------------------------- grid stats
\* [...].reduce((sum, profit) => sum + profit, 0) over the rows of one
\* collection that have a net_profit
RECURSIVE SumNetProfit(_, _)
SumNetProfit(rows, ids) ==
    IF ids = {} THEN 0
    ELSE LET id == CHOOSE x \in ids : TRUE
         IN (IF rows[id].net_profit # NULLN THEN rows[id].net_profit ELSE 0)
                + SumNetProfit(rows, ids \ {id})

\* stats of the grid page: the counts of sold rows and the profit card
Stats ==
    [soldArticles |-> Cardinality({id \in DOMAIN articles :
                                     articles[id].status \in {"sold", "vendu_en_lot"}}),
     soldLots |-> Cardinality({id \in DOMAIN lots : lots[id].status = "sold"}),
     netProfit |-> SumNetProfit(articles, DOMAIN articles) + SumNetProfit(lots, DOMAIN lots)]

\* ---------------------------------------------------------------- analytics view
\* new Date(iso), in days, over the sample timestamps; anything else is an
\* invalid date, which compares false with every date
ParseDate(iso) ==
    CASE iso = "d69" -> 69
      [] iso = "d70" -> 70
      [] iso = "d99" -> 99
      [] iso = "d100" -> 100
      [] OTHER -> NULLN

InWindow(dateIso, start, end) ==
    IF dateIso = NULL THEN FALSE
    ELSE LET d == ParseDate(dateIso) IN d # NULLN /\ d >= start /\ d < end

\* the characters of the kinds and of the statuses
Spell == [article |-> <<"a", "r", "t", "i", "c", "l", "e">>,
          lot |-> <<"l", "o", "t">>,
          draft |-> <<"d", "r", "a", "f", "t">>,
          published |-> <<"p", "u", "b", "l", "i", "s", "h", "e", "d">>,
          sold |-> <<"s", "o", "l", "d">>]
SansTitre == <<"S", "a", "n", "s", " ", "t", "i", "t", "r", "e">>
MemberNameById == [s1 |-> <<"A", "l">>, s2 |-> <<"B", "o">>]

\* one element of unified, with the fields the page reads
AnalyticsItem(kind, id, row) ==
    [kind |-> kind, id |-> id,
     title |-> IF kind = "lot" THEN row.name ELSE row.title,
     brand |-> IF kind = "lot" THEN NOTEXT ELSE row.brand,
     reference_number |-> row.reference_number,
     status |-> row.status,
     seller_id |-> row.seller_id,
     created_at |-> row.created_at,
     sold_at |-> row.sold_at,
     sold_price |-> row.sold_price,
     net_profit |-> row.net_profit]
UnifiedOf(all) ==
    {AnalyticsItem("article", id, all.article[id]) : id \in DOMAIN all.article}
        \cup {AnalyticsItem("lot", id, all.lot[id]) : id \in DOMAIN all.lot}

GetItemTitle(item) == IF item.title = NOTEXT \/ item.title = <<>> THEN SansTitre ELSE item.title

DateField(it, mode) == IF mode = "sold" THEN it.sold_at ELSE it.created_at

ItemsInScopeOf(all, p, mode) ==
    IF p = NoPeriod THEN UnifiedOf(all)
    ELSE {it \in UnifiedOf(all) : InWindow(DateField(it, mode), p.start, p.end)}
ItemsInScope == ItemsInScopeOf(itemsAll, period, dateMode)

ItemsInPrevScope ==
    IF prevPeriod = NoPeriod THEN {}
    ELSE {it \in UnifiedOf(itemsAll) :
            InWindow(DateField(it, dateMode), prevPeriod.start, prevPeriod.end)}

\* toNumber: a number as it is, null as 0
ToNumber(v) == IF v = NULLN THEN 0 ELSE v

RECURSIVE SumSoldPrice(_)
SumSoldPrice(S) ==
    IF S = {} THEN 0
    ELSE LET x == CHOOSE y \in S : TRUE
         IN ToNumber(x.sold_price) + SumSoldPrice(S \ {x})

\* a quotient of two integers, kept as the pair; den 0 is NaN or Infinity
Ratio(a, b) == [num |-> a, den |-> b]
Zero == Ratio(0, 1)

\* the stored statuses are lower-case words, which toLowerCase leaves alone
NormStatus(status) == status

\* every row with status sold
SoldItemsByStatus(scope) == {x \in scope : NormStatus(x.status) = "sold"}
\* soldArticles and soldLots together
SoldItems(scope) == {x \in scope : NormStatus(x.status) = "sold" /\ x.sold_at # NULL}

PublishedLikeStatuses == {"published", "scheduled", "sold", "vendu_en_lot"}

\* the division without its guard
AvgSalePriceUnguarded(totalRevenue, soldTransactions) == Ratio(totalRevenue, soldTransactions)
AvgSalePrice(totalRevenue, soldTransactions) ==
    IF soldTransactions > 0 THEN Ratio(totalRevenue, soldTransactions) ELSE Zero
ConversionRate(soldTransactions, publishedLike) ==
    IF publishedLike > 0
    THEN LET q == Ratio(soldTransactions, publishedLike) IN Ratio(q.num * 100, q.den)
    ELSE Zero

ComputeMetrics(scope) ==
    LET totalRevenue == SumSoldPrice(SoldItems(scope))
        sold == Cardinality({x \in scope : NormStatus(x.status) = "sold"})
        publishedLike ==
            Cardinality({x \in scope : NormStatus(x.status) \in PublishedLikeStatuses})
        soldTransactions == Cardinality(SoldItems(scope))
    IN [totalItems |-> Cardinality(scope),
        sold |-> sold,
        publishedLike |-> publishedLike,
        soldTransactions |-> soldTransactions,
        totalRevenue |-> totalRevenue,
        avgSalePrice |-> AvgSalePrice(totalRevenue, soldTransactions),
        conversionRate |-> ConversionRate(soldTransactions, publishedLike)]
Metrics == ComputeMetrics(ItemsInScope)

\* sellerStats, without the order of its rows
RECURSIVE SumField(_, _)
SumField(S, field) ==
    IF S = {} THEN 0
    ELSE LET x == CHOOSE y \in S : TRUE
         IN ToNumber(x[field]) + SumField(S \ {x}, field)

NoSeller == "no-seller"
\* the keys of the map: the known members, then the buckets the scope adds
SellerKeys(scope) ==
    DOMAIN MemberNameById
        \cup {IF it.seller_id # NULL THEN it.seller_id ELSE NoSeller : it \in scope}

\* one row of arr: the aggregate of a bucket with its two quotients
SellerRow(scope, id) ==
    LET mine == {it \in scope : (IF it.seller_id # NULL THEN it.seller_id ELSE NoSeller) = id}
        soldOnes == SoldItems(mine)
        itemsPublished ==
            Cardinality({it \in mine : NormStatus(it.status) \in PublishedLikeStatuses})
        itemsSold == Cardinality(soldOnes)
        totalRevenue == SumField(soldOnes, "sold_price")
    IN [id |-> id,
        totalSales |-> itemsSold,
        totalRevenue |-> totalRevenue,
        totalProfit |-> SumField(soldOnes, "net_profit"),
        averagePrice |-> AvgSalePrice(totalRevenue, itemsSold),
        conversionRate |-> ConversionRate(itemsSold, itemsPublished),
        itemsPublished |-> itemsPublished,
        itemsSold |-> itemsSold]
SellerRows(scope) == {SellerRow(scope, id) : id \in SellerKeys(scope)}

\* a filter that keeps only the sellers with revenue
KeptWithRevenue(x) == x.totalRevenue > 0
\* the filter of cleaned
Kept(x) == x.itemsPublished > 0 \/ x.itemsSold > 0 \/ x.totalRevenue > 0
SellerStats == {x \in SellerRows(ItemsInScope) : Kept(x)}

\* String.prototype.trim
Trim(text) ==
    LET inked == {k \in 1..Len(text) : text[k] # " "}
    IN IF inked = {} THEN <<>>
       ELSE SubSeq(text, CHOOSE k \in inked : \A m \in inked : k <= m,
                         CHOOSE k \in inked : \A m \in inked : k >= m)

\* Array.prototype.join(" ")
RECURSIVE Join(_)
Join(parts) ==
    IF Len(parts) = 0 THEN <<>>
    ELSE IF Len(parts) = 1 THEN parts[1]
    ELSE parts[1] \o <<" ">> \o Join(Tail(parts))

OrEmpty(text) == IF text = NOTEXT THEN <<>> ELSE text

Hay(it) ==
    ToLowerCase(Join(<<GetItemTitle(it),
                       OrEmpty(it.brand),
                       IF it.seller_id # NULL THEN MemberNameById[it.seller_id] ELSE <<>>,
                       Spell[it.kind],
                       Spell[it.status],
                       OrEmpty(it.reference_number)>>))

\* filteredTableItems, without the order of its rows
FilteredTableItemsOf(scope, text, chosen) ==
    LET q == ToLowerCase(Trim(text))
    IN {it \in scope :
            /\ chosen # {} => NormStatus(it.status) \in chosen
            /\ q = <<>> \/ Includes(Hay(it), q)}
FilteredTableItems == FilteredTableItemsOf(ItemsInScope, search, statusFilters)

TableSearchTexts == {<<>>, <<"a">>, <<"a", " ">>, <<"o", "t">>, <<"b", " ", "b">>}
StatusChips == {"sold"}
TimeRanges == {"7d", "30d", "90d", "all"}

AnalyticsFrame == UNCHANGED <<dbVars, gridVars, itemsAll, family, profileDefault, editorVars,
                              defaultSeller, gridViewVars, tasks, budget>>

\* the search box of the table; the effect on [search, ...] resets the page
SetTableSearch(text) ==
    /\ text # search
    /\ search' = text
    /\ tablePage' = 1
    /\ last' = ViewEvent("setTableSearch")
    /\ UNCHANGED <<timeRange, dateMode, statusFilters, period, prevPeriod, now>>
    /\ AnalyticsFrame

\* a status card: setStatusFilters([key])
SetStatusFilters(key) ==
    /\ statusFilters' = {key}
    /\ tablePage' = 1
    /\ last' = ViewEvent("setStatusFilters")
    /\ UNCHANGED <<timeRange, dateMode, search, period, prevPeriod, now>>
    /\ AnalyticsFrame

\* the reset button: setStatusFilters([])
ClearStatusFilters ==
    /\ statusFilters # {}
    /\ statusFilters' = {}
    /\ tablePage' = 1
    /\ last' = ViewEvent("clearStatusFilters")
    /\ UNCHANGED <<timeRange, dateMode, search, period, prevPeriod, now>>
    /\ AnalyticsFrame

\* the period selector; period and prevPeriod are recomputed only when
\* timeRange changes, each by its own call of getCutoffDate, which reads the
\* clock: the second reading is `lag` ticks after the first
SetTimeRange(r, lag) ==
    /\ r # timeRange
    /\ now + lag <= Today + MaxTicks
    /\ timeRange' = r
    /\ period' = GetCutoffDate(r, now)
    /\ prevPeriod' = GetCutoffDateAt(r, 1, now + lag)
    /\ now' = now + lag
    /\ tablePage' = 1
    /\ last' = ViewEvent("setTimeRange")
    /\ UNCHANGED <<dateMode, search, statusFilters>>
    /\ AnalyticsFrame

SetDateMode(mode) ==
    /\ mode # dateMode
    /\ dateMode' = mode
    /\ tablePage' = 1
    /\ last' = ViewEvent("setDateMode")
    /\ UNCHANGED <<timeRange, search, statusFilters, period, prevPeriod, now>>
    /\ AnalyticsFrame

\* a day passes with the page open
Tick ==
    /\ now < Today + MaxTicks
    /\ now' = now + 1
    /\ last' = ViewEvent("tick")
    /\ UNCHANGED <<timeRange, dateMode, search, statusFilters, tablePage, period, prevPeriod>>
    /\ AnalyticsFrame

\* ---------------------------------------------------------------- image editor
\* the images are numbered: the imageUrl prop, then the images the edit
\* service produces
ImageUrl == 0

\* editHistory[historyIndex] || imageUrl
CurrentImageOf(history, index) ==
    IF index + 1 \in DOMAIN history THEN history[index + 1] ELSE ImageUrl
CurrentImage == CurrentImageOf(editHistory, historyIndex)
CanUndo == historyIndex > 0
CanRedo == historyIndex < Len(editHistory) - 1

\* Array.prototype.slice(0, end)
SliceTo(list, end) == SubSeq(list, 1, Min(Max(end, 0), Len(list)))

EditorFrame == UNCHANGED <<dbVars, gridVars, itemsAll, family, profileDefault, defaultSeller,
                           gridViewVars, analyticsVars>>

\* handleEdit with a non-empty prompt, up to its first await; the buttons
\* that call it are disabled while processing
HandleEdit ==
    /\ budget > 0
    /\ ~processing
    /\ processing' = TRUE
    /\ tasks' = Append(tasks, [h |-> "edit", historyIndex |-> historyIndex,
                               currentImage |-> CurrentImage, reqs |-> <<>>])
    /\ budget' = budget - 1
    /\ last' = Event("editStart", <<>>)
    /\ UNCHANGED <<editHistory, historyIndex, imageCount>>
    /\ EditorFrame

\* the requests of handleEdit are answered and it resumes: the new image is
\* put after the first historyIndex + 1 entries, historyIndex being the one
\* of the render that called handleEdit, and the index of now is advanced;
\* or one of the requests failed and only the error is set
EditDone(i, ok) ==
    /\ i \in 1..Len(tasks)
    /\ tasks[i].h = "edit"
    /\ IF ok
       THEN /\ imageCount' = imageCount + 1
            /\ editHistory' = Append(SliceTo(editHistory, tasks[i].historyIndex + 1),
                                     imageCount + 1)
            /\ historyIndex' = historyIndex + 1
            /\ last' = [h |-> "editOk", toasts |-> <<>>, image |-> imageCount + 1]
       ELSE /\ last' = [h |-> "editFailed", toasts |-> <<>>, image |-> NULLN]
            /\ UNCHANGED <<editHistory, historyIndex, imageCount>>
    /\ processing' = FALSE
    /\ tasks' = RemoveAt(tasks, i)
    /\ UNCHANGED budget
    /\ EditorFrame

\* the undo and redo buttons are disabled only by canUndo and canRedo: they
\* stay enabled while an edit is in flight
HandleUndo ==
    /\ CanUndo
    /\ historyIndex' = historyIndex - 1
    /\ last' = Event("undo", <<>>)
    /\ UNCHANGED <<editHistory, processing, imageCount, tasks, budget>>
    /\ EditorFrame

HandleRedo ==
    /\ CanRedo
    /\ historyIndex' = historyIndex + 1
    /\ last' = Event("redo", <<>>)
    /\ UNCHANGED <<editHistory, processing, imageCount, tasks, budget>>
    /\ EditorFrame

\* the reset button, disabled while processing
HandleReset ==
    /\ ~processing
    /\ editHistory # <<ImageUrl>> \/ historyIndex # 0
    /\ editHistory' = <<ImageUrl>>
    /\ historyIndex' = 0
    /\ last' = Event("reset", <<>>)
    /\ UNCHANGED <<processing, imageCount, tasks, budget>>
    /\ EditorFrame

\* ---------------------------------------------------------------- specifications
\* the state after the pages have mounted and loaded the stored rows; the
\* analytics page has read the clock twice, the second time `lag` ticks later
InitRowsAt(dbA, dbL, items, events, lag) ==
    /\ dbArticles = dbA
    /\ dbLots = dbL
    /\ dbLotItems = items
    /\ nextId = 0
    /\ articles = LoadedArticles(dbArticles)
    /\ lots = LoadedLots(dbLots, dbLotItems)
    /\ selectedItems = {}
    /\ editState = NoEdit
    /\ focus = FALSE
    /\ itemsAll = [article |-> dbArticles, lot |-> dbLots]
    /\ family = [m \in Sellers |-> m = "s1"]
    /\ profileDefault = "s1"
    /\ defaultSeller = "s1"
    /\ filters = NoFilters
    /\ sortColumn = ""
    /\ sortDirection = "asc"
    /\ currentPage = 1
    /\ timeRange = "30d"
    /\ dateMode = "created"
    /\ search = <<>>
    /\ statusFilters = {}
    /\ tablePage = 1
    /\ now = Today + lag
    /\ period = GetCutoffDate("30d", Today)
    /\ prevPeriod = GetCutoffDateAt("30d", 1, Today + lag)
    /\ editHistory = <<ImageUrl>>
    /\ historyIndex = 0
    /\ processing = FALSE
    /\ imageCount = 0
    /\ tasks = <<>>
    /\ budget = events
    /\ last = NoEvent

InitRows(dbA, dbL, items, events) == InitRowsAt(dbA, dbL, items, events, 0)

InitWith(lotIds, lotRow, events) ==
    InitRows([id \in ArticleIds |-> DraftRow(ArticleCols, "title", "Jacket")],
             [id \in lotIds |-> lotRow],
             {<<l, "2">> : l \in lotIds}, events)

\* the grid page with a lot that was sold
Init == InitWith(DisjointLotIds, SoldRow(LotCols, "name", "Bundle"), MaxBulkEvents)

Select ==
    \/ \E item \in UnifiedItems, checked \in BOOLEAN : HandleSelectItem(item, checked)
    \/ \E checked \in BOOLEAN : HandleSelectAll(checked)

BulkEvent ==
    \/ HandleBulkDelete
    \/ \E s \in BulkStatusArgs : HandleBulkStatusChange(s)
    \/ \E s \in BulkSellerArgs : HandleBulkSellerChange(s)
    \/ \E s \in BulkSeasonArgs : HandleBulkSeasonChange(s)
    \/ HandleBulkDuplicate

BulkStep ==
    \/ \E i \in 1..Len(tasks), j \in 1..2, ok \in BOOLEAN : BulkResolve(i, j, ok)
    \/ \E i \in 1..Len(tasks) : BulkDone(i)
    \/ \E i \in 1..Len(tasks), ok \in BOOLEAN : DupInsertArticle(i, ok)
    \/ \E i \in 1..Len(tasks), ok \in BOOLEAN : DupInsertLot(i, ok)
    \/ \E i \in 1..Len(tasks), ok \in BOOLEAN : DupSelectLotItems(i, ok)
    \/ \E i \in 1..Len(tasks), ok \in BOOLEAN : DupInsertLotItems(i, ok)
    \/ \E i \in 1..Len(tasks), ok \in BOOLEAN : DupLoad(i, ok)

\* the grid page under bulk operations
Next ==
    \/ Select
    \/ BulkEvent
    \/ BulkStep

Spec == Init /\ [][Next]_vars

EditEvent ==
    \/ \E item \in UnifiedItems, field \in EditFields : StartEdit(item, field)
    \/ \E item \in UnifiedItems, field \in EditFields :
          \E value \in TypedValues(field) \cup {editState.originalValue} :
            HandleChange(item, field, value)
    \/ \E item \in UnifiedItems, field \in EditFields, key \in {"Enter", "blur"} :
            SaveCell(item, field, key)
    \/ \E item \in UnifiedItems, field \in EditFields : CancelEdit(item, field)

EditStep == \E i \in 1..Len(tasks), ok \in BOOLEAN : SaveDone(i, ok)

\* the grid page under inline cell edits
InitEdit == InitWith(DisjointLotIds, DraftRow(LotCols, "name", "Bundle"), MaxEditEvents)
\* with one interfering bulk status change over every row
NextEdit ==
    \/ EditEvent
    \/ EditStep
    \/ HandleSelectAll(TRUE)
    \/ \E st \in BulkStatusArgs : HandleBulkStatusChange(st)
    \/ \E i \in 1..Len(tasks), j \in 1..2, ok \in BOOLEAN : BulkResolve(i, j, ok)
    \/ \E i \in 1..Len(tasks) : BulkDone(i)
SpecEdit == InitEdit /\ [][NextEdit]_vars

\* the grid page when the lot's id is also the id of an article
InitCollide == InitWith(CollidingLotIds, DraftRow(LotCols, "name", "Bundle"), MaxCollideEvents)
NextCollide ==
    \/ Select
    \/ EditEvent
    \/ EditStep
    \/ HandleBulkDelete
    \/ \E i \in 1..Len(tasks), j \in 1..2, ok \in BOOLEAN : BulkResolve(i, j, ok)
    \/ \E i \in 1..Len(tasks) : BulkDone(i)
SpecCollide == InitCollide /\ [][NextCollide]_vars

\* the analytics page: mark sold and change status
InitSales == InitWith(DisjointLotIds, DraftRow(LotCols, "name", "Bundle"), MaxSaleEvents)
NextSales ==
    \/ \E it \in DrawerItems, sale \in SaleInputs : HandleSoldSave(it, sale)
    \/ \E it \in DrawerItems, st \in StatusArgs : HandleStatusSave(it, st)
    \/ \E i \in 1..Len(tasks), ok \in BOOLEAN : SoldPrimary(i, ok)
    \/ \E i \in 1..Len(tasks), ok \in BOOLEAN : SoldSelectLotItems(i, ok)
    \/ \E i \in 1..Len(tasks), ok \in BOOLEAN : SoldCascade(i, ok)
    \/ \E i \in 1..Len(tasks), ok \in BOOLEAN : StatusWrite(i, ok)
    \/ \E i \in 1..Len(tasks), ok \in BOOLEAN : SaleLoad(i, ok)
SpecSales == InitSales /\ [][NextSales]_vars

\* the grid page with a lot that was sold, under inline edits
InitStats == InitWith(DisjointLotIds, SoldRow(LotCols, "name", "Bundle"), MaxStatsEvents)
NextStats ==
    \/ EditEvent
    \/ EditStep
SpecStats == InitStats /\ [][NextStats]_vars

\* the image editor
InitEditor == InitWith(DisjointLotIds, DraftRow(LotCols, "name", "Bundle"), MaxEditorEvents)
NextEditor ==
    \/ HandleEdit
    \/ \E i \in 1..Len(tasks), ok \in BOOLEAN : EditDone(i, ok)
    \/ HandleUndo
    \/ HandleRedo
    \/ HandleReset
SpecEditor == InitEditor /\ [][NextEditor]_vars

\* the layout: set the default seller
InitSeller == InitWith(DisjointLotIds, DraftRow(LotCols, "name", "Bundle"), MaxSellerEvents)
NextSeller ==
    \/ \E m \in Sellers : SetDefaultSellerHandler(m)
    \/ \E i \in 1..Len(tasks), ok \in BOOLEAN : SellerClear(i, ok)
    \/ \E i \in 1..Len(tasks), ok \in BOOLEAN : SellerSet(i, ok)
    \/ \E i \in 1..Len(tasks), ok \in BOOLEAN : SellerProfile(i, ok)
SpecSeller == InitSeller /\ [][NextSeller]_vars

\* the grid page's filters, sort and pagination over sample rows whose texts
\* are spelled out
ViewRow(cols, label, text, brand, ref, status, seller, season, price) ==
    [c \in cols |->
        CASE c = label -> text
          [] c = "brand" -> brand
          [] c = "reference_number" -> ref
          [] c = "status" -> status
          [] c = "seller_id" -> seller
          [] c = "season" -> season
          [] c = "price" -> price
          [] c = "created_at" -> "t0"
          [] OTHER -> NullOf(c)]
ViewArticles ==
    {ViewRow(ArticleCols, "title", <<"b">>, <<"B", "a">>, NOTEXT, "sold", "s2", NULL, NULLN),
     ViewRow(ArticleCols, "title", NOTEXT, <<"a", "b">>, <<"R", "2">>, "draft", "s1",
             "summer", 3),
     ViewRow(ArticleCols, "title", <<"a", " ", "b">>, NOTEXT, <<"r", "a">>, "sold", "s1",
             "summer", 9)}
ViewLots ==
    {ViewRow(LotCols, "name", <<"b", "A">>, NOTEXT, <<"r", "3">>, "sold", "s1", "summer", NULLN),
     ViewRow(LotCols, "name", <<"B">>, NOTEXT, NOTEXT, "draft", NULL, NULL, 7)}
InitView ==
    \E second \in ViewArticles, lot \in ViewLots :
        InitRows([id \in ArticleIds |->
                    IF id = "1"
                    THEN ViewRow(ArticleCols, "title", <<"A", "b">>, NOTEXT, <<"r", "1">>,
                                 "draft", "s1", "summer", 5)
                    ELSE second],
                 [id \in DisjointLotIds |-> lot], {}, 0)
NextView ==
    \/ \E text \in SearchTexts : SetSearch(text)
    \/ ClearSearch
    \/ ResetFilters
    \/ \E value \in TypeOptions \cup {""} : SetFilter("type", value)
    \/ \E value \in StatusOptions \cup {""} : SetFilter("status", value)
    \/ \E value \in SellerOptions \cup {""} : SetFilter("seller", value)
    \/ \E value \in SeasonOptions \cup {""} : SetFilter("season", value)
    \/ \E column \in SortColumns : HandleSort(column)
    \/ \E button \in {"first", "previous", "number", "next", "last"}, pageNum \in 1..3 :
            GoToPage(button, pageNum)
SpecView == InitView /\ [][NextView]_vars

\* the grid page's pagination under selection and bulk deletion
InitPages ==
    \E second \in ViewArticles, lot \in ViewLots :
        InitRows([id \in ArticleIds |->
                    IF id = "1"
                    THEN ViewRow(ArticleCols, "title", <<"A", "b">>, NOTEXT, <<"r", "1">>,
                                 "draft", "s1", "summer", 5)
                    ELSE second],
                 [id \in DisjointLotIds |-> lot], {}, MaxPageEvents)
NextPages ==
    \/ Select
    \/ HandleBulkDelete
    \/ \E i \in 1..Len(tasks), j \in 1..2, ok \in BOOLEAN : BulkResolve(i, j, ok)
    \/ \E i \in 1..Len(tasks) : BulkDone(i)
    \/ \E button \in {"first", "previous", "number", "next", "last"}, pageNum \in 1..3 :
            GoToPage(button, pageNum)
SpecPages == InitPages /\ [][NextPages]_vars

\* the analytics page: scope and metrics over sample rows whose texts and
\* dates are spelled out, while days pass and statuses are changed
AnalyticsRow(cols, label, text, brand, ref, status, seller, created, soldAt, soldPrice) ==
    [c \in cols |->
        CASE c = label -> text
          [] c = "brand" -> brand
          [] c = "reference_number" -> ref
          [] c = "status" -> status
          [] c = "seller_id" -> seller
          [] c = "created_at" -> created
          [] c = "sold_at" -> soldAt
          [] c = "sold_price" -> soldPrice
          [] OTHER -> NullOf(c)]
AnalyticsArticles ==
    {AnalyticsRow(ArticleCols, "title", NOTEXT, <<"B", "a">>, NOTEXT, "published", "s2",
                  "d99", NULL, NULLN),
     AnalyticsRow(ArticleCols, "title", <<"b">>, <<"B", "a">>, <<"r", "2">>, "sold", "s1",
                  "d69", "d100", 20)}
AnalyticsLots ==
    {AnalyticsRow(LotCols, "name", <<"b", "A">>, NOTEXT, <<"r", "3">>, "draft", NULL,
                  "d100", NULL, NULLN),
     AnalyticsRow(LotCols, "name", <<"B">>, NOTEXT, NOTEXT, "sold", "s1", "d70", "d70", 50)}
InitAnalytics ==
    \E second \in AnalyticsArticles, lot \in AnalyticsLots, lag \in 0..1 :
        InitRowsAt([id \in ArticleIds |->
                    IF id = "1"
                    THEN AnalyticsRow(ArticleCols, "title", <<"A", "b">>, NOTEXT, <<"r", "1">>,
                                      "sold", "s1", "d70", "d99", 30)
                    ELSE second],
                   [id \in DisjointLotIds |-> lot], {}, MaxAnalyticsEvents, lag)
NextAnalytics ==
    \/ \E r \in TimeRanges, lag \in 0..1 : SetTimeRange(r, lag)
    \/ \E mode \in {"created", "sold"} : SetDateMode(mode)
    \/ Tick
    \/ \E it \in DrawerItems, st \in StatusArgs : HandleStatusSave(it, st)
    \/ \E i \in 1..Len(tasks), ok \in BOOLEAN : StatusWrite(i, ok)
    \/ \E i \in 1..Len(tasks), ok \in BOOLEAN : SaleLoad(i, ok)
SpecAnalytics == InitAnalytics /\ [][NextAnalytics]_vars

\* the table of the analytics page: search and status cards within the scope
NextTable ==
    \/ \E text \in TableSearchTexts : SetTableSearch(text)
    \/ \E key \in StatusChips : SetStatusFilters(key)
    \/ ClearStatusFilters
    \/ \E r \in TimeRanges, lag \in 0..1 : SetTimeRange(r, lag)
    \/ \E mode \in {"created", "sold"} : SetDateMode(mode)
SpecTable == InitAnalytics /\ [][NextTable]_vars

\* ================================================================ claims
BulkSteps == {"bulkStart", "bulkResolve", "bulkFailed", "bulkApplied"}
WritesTo(t, table) ==
    Cardinality({j \in 1..Len(t.reqs) : t.reqs[j].table = table /\ t.reqs[j].verb # "select"})
AllOk(reqs) == \A j \in 1..Len(reqs) : reqs[j].res = "ok"
AnyErr(reqs) == \E j \in 1..Len(reqs) : reqs[j].res = "err"

\* C1: a bulk status change, seller or season reassignment or bulk delete
\* changes the local articles and lots only in the step that follows the
\* success of the remote writes of both kinds; when the write of either kind
\* failed, the step that ends the operation changes no local article and no
\* local lot and raises exactly one error notification.
C1_BulkAllOrNothing ==
    [][ /\ (last'.h \in BulkSteps /\ (articles' # articles \/ lots' # lots)
              => \E i \in 1..Len(tasks) :
                    /\ tasks[i].h = "bulk"
                    /\ tasks' = RemoveAt(tasks, i)
                    /\ AllOk(tasks[i].reqs))
        /\ \A i \in 1..Len(tasks) :
              (/\ last'.h \in BulkSteps
               /\ tasks[i].h = "bulk"
               /\ tasks' = RemoveAt(tasks, i)
               /\ AnyErr(tasks[i].reqs))
              => /\ articles' = articles
                 /\ lots' = lots
                 /\ last'.toasts = <<"error">>
      ]_vars

\* a bulk operation over articles and a lot has ended with the articles
\* written and the lot write refused
C1_Witness ==
    /\ last.h = "bulkFailed"
    /\ Cardinality(last.articleIds) = 2
    /\ last.lotIds # {}
    /\ last.results = <<"ok", "err">>
    /\ articles = LoadedArticles([id \in ArticleIds |-> DraftRow(ArticleCols, "title", "Jacket")])

\* the value and the row set of every local cell except the one named
OthersUnchanged(item, col) ==
    /\ DOMAIN articles' = DOMAIN articles
    /\ DOMAIN lots' = DOMAIN lots
    /\ \A id \in DOMAIN articles : \A c \in DOMAIN articles[id] :
          (item.type = "article" /\ item.id = id /\ c = col)
            \/ (c \in DOMAIN articles'[id] /\ articles'[id][c] = articles[id][c])
    /\ \A id \in DOMAIN lots : \A c \in DOMAIN lots[id] :
          (item.type = "lot" /\ item.id = id /\ c = col)
            \/ (c \in DOMAIN lots'[id] /\ lots'[id][c] = lots[id][c])
    /\ \A id \in DOMAIN articles : DOMAIN articles'[id] = DOMAIN articles[id]
    /\ \A id \in DOMAIN lots : DOMAIN lots'[id] = DOMAIN lots[id]

\* C2: the snapshot of an edit session is the value the cell had when the
\* edit started and does not change during the session; when the remote write
\* of a cell fails, the field of that record is set back to that snapshot, no
\* cell is left in edit mode, exactly one error notification is raised, and
\* no other field and no other record changes.
C2_RollbackOnFailure ==
    [][ /\ (last'.h = "startEdit"
              => \E item \in UnifiedItems :
                    /\ editState'.rowId = item.id
                    /\ editState'.originalValue = UnifiedValue(item, editState'.field))
        /\ (editState.rowId # NULL /\ editState'.rowId # NULL /\ last'.h # "startEdit"
              => editState'.originalValue = editState.originalValue)
        /\ (last'.h = "saveIssued"
              => tasks'[Len(tasks')].originalValue = editState.originalValue)
        /\ (last'.h = "saveFailed"
              => /\ \E i \in 1..Len(tasks) :
                      /\ tasks' = RemoveAt(tasks, i)
                      /\ tasks[i].h = "save"
                      /\ tasks[i].item = last'.item
                      /\ tasks[i].field = last'.field
                      /\ tasks[i].originalValue = last'.originalValue
                 /\ (last'.item \in UnifiedItems
                      => UnifiedValueIn(articles', lots', last'.item, last'.field)
                            = last'.originalValue)
                 /\ editState' = NoEdit
                 /\ last'.toasts = <<"error">>
                 /\ OthersUnchanged(last'.item,
                        IF last'.item.type = "lot" /\ last'.field = "title"
                        THEN "name" ELSE last'.field)
                 /\ UNCHANGED dbVars)
      ]_vars

\* the write of a changed lot title has failed and the title is back
C2_Witness ==
    /\ last.h = "saveFailed"
    /\ last.item.type = "lot"
    /\ last.field = "title"
    /\ last.updateValue # last.originalValue
    /\ lots[last.item.id].name = last.originalValue
    /\ editState = NoEdit

\* C3 as stated: at a commit by blur or Enter, a value equal to the snapshot
\* issues no write and ends the edit, any other value issues the write of
\* that one field of that one record.
C3_Original ==
    last.h \in {"saveDiscarded", "saveIssued"}
        => IF last.value = last.originalValue
           THEN last.issued = <<>> /\ editState = NoEdit
           ELSE last.issued = <<Request("update", TableOf(last.item.type), {last.item.id},
                                  {IF last.item.type = "lot" /\ last.field = "title"
                                   THEN "name" ELSE last.field})>>

\* C3 amended: at a commit by blur or Enter, a session in which no change
\* event occurred issues no write and ends the edit; a session in which a
\* change event occurred issues exactly one write, of that one field of that
\* one record, even when the value is again equal to the snapshot.
C3_CommitWritesIffDirty ==
    [][ last'.h \in {"saveDiscarded", "saveIssued"}
          => IF ~editState.isDirty
             THEN /\ tasks' = tasks
                  /\ editState' = NoEdit
                  /\ last'.issued = <<>>
             ELSE /\ Len(tasks') = Len(tasks) + 1
                  /\ \A i \in 1..Len(tasks) : tasks'[i] = tasks[i]
                  /\ tasks'[Len(tasks')].reqs =
                        <<Request("update", TableOf(last'.item.type), {last'.item.id},
                            {IF last'.item.type = "lot" /\ last'.field = "title"
                             THEN "name" ELSE last'.field})>>
                  /\ tasks'[Len(tasks')].updateValue = UnifiedValue(last'.item, last'.field)
      ]_vars

\* a commit has issued a write although the value equals the snapshot
C3_Witness ==
    /\ last.h = "saveIssued"
    /\ last.value = last.originalValue
    /\ Len(tasks) = 1

\* C4: Escape sets the field of the edited record back to the snapshot and
\* issues no remote write, whether or not the session was dirty.
C4_EscapeRestores ==
    [][ last'.h = "cancelEdit"
          => /\ last'.originalValue = editState.originalValue
             /\ UnifiedValueIn(articles', lots', last'.item, last'.field)
                    = editState.originalValue
             /\ editState' = NoEdit
             /\ tasks' = tasks
             /\ UNCHANGED dbVars
      ]_vars

\* Escape was pressed in a session that had changed the value
C4_Witness ==
    /\ last.h = "cancelEdit"
    /\ last.isDirty
    /\ UnifiedValue(last.item, last.field) = last.originalValue
    /\ tasks = <<>>

\* C5: the cascade write of a lot marked sold is issued and answered only in
\* a handler whose write of the lot itself succeeded; when it succeeds every
\* constituent article has status vendu_en_lot and the lot id as
\* back-reference; when it fails the handler ends with one error
\* notification and leaves every stored row as it is, the lot's own write
\* included.
C5_CascadeAfterPrimary ==
    [][ /\ \A i \in 1..Len(tasks') :
              (tasks'[i].h = "sold" /\ Len(tasks'[i].reqs) = 2)
                => /\ tasks'[i].reqs[1].res = "ok"
                   /\ tasks'[i].reqs[1].table = "lots"
                   /\ tasks'[i].reqs[2].table = "articles"
                   /\ tasks'[i].reqs[2].cols = {"status", "sold_lot_id"}
        /\ (last'.h \in {"soldCascadeOk", "soldCascadeFailed"}
              => /\ last'.results[1] = "ok"
                 /\ last'.item.kind = "lot")
        /\ (last'.h = "soldCascadeOk"
              => \A p \in dbLotItems :
                    (p[1] = last'.item.id /\ p[2] \in DOMAIN dbArticles')
                      => /\ dbArticles'[p[2]].status = "vendu_en_lot"
                         /\ dbArticles'[p[2]].sold_lot_id = last'.item.id)
        /\ (last'.h = "soldCascadeFailed"
              => /\ UNCHANGED dbVars
                 /\ itemsAll' = itemsAll
                 /\ last'.toasts = <<"error">>)
      ]_vars

\* the cascade of a lot has failed: the lot is sold, its article is not
C5_Witness ==
    /\ last.h = "soldCascadeFailed"
    /\ last.results = <<"ok", "err">>
    /\ dbLots[last.item.id].status = "sold"
    /\ \A p \in dbLotItems :
          p[1] = last.item.id => dbArticles[p[2]].status = "draft"
                                   /\ dbArticles[p[2]].sold_lot_id = NULL

\* C6: in the remote store, sold_at is non-null exactly on the rows whose
\* status is sold or vendu_en_lot.
C6_SoldAtIffSoldStatus ==
    /\ \A id \in DOMAIN dbArticles :
          (dbArticles[id].sold_at # NULL)
            <=> (dbArticles[id].status \in {"sold", "vendu_en_lot"})
    /\ \A id \in DOMAIN dbLots :
          (dbLots[id].sold_at # NULL) <=> (dbLots[id].status \in {"sold", "vendu_en_lot"})

\* C7: at most one seller of the account is marked default.
C7_AtMostOneDefault == Cardinality({m \in Sellers : family[m]}) <= 1

\* C8: when an article and a lot have the same id, ticking the checkbox of
\* one does not draw the other selected, and clicking a cell of one does not
\* put the other in edit mode.
C8_KindIdIdentity ==
    /\ (last.h = "selectItem" /\ last.checked)
          => \A other \in UnifiedItems :
                (other.id = last.item.id /\ other # last.item) => ~IsSelected(other)
    /\ last.h = "startEdit"
          => \A other \in UnifiedItems :
                (other.id = last.item.id /\ other # last.item)
                  => ~InputRendered(other, last.field)

\* C9 as stated: every bulk operation, duplicate included, issues at most
\* one remote write per table.
C9_Original ==
    \A i \in 1..Len(tasks) :
        tasks[i].h \in {"bulk", "dup"}
          => WritesTo(tasks[i], "articles") <= 1 /\ WritesTo(tasks[i], "lots") <= 1

\* C9 amended: a bulk status change, seller or season reassignment or delete
\* issues one write per kind that has a selected item and no other request;
\* a duplicate issues one insert per selected item.
C9_OneWritePerKind ==
    \A i \in 1..Len(tasks) :
        /\ tasks[i].h = "bulk"
              => /\ WritesTo(tasks[i], "articles") = (IF tasks[i].articleIds = {} THEN 0 ELSE 1)
                 /\ WritesTo(tasks[i], "lots") = (IF tasks[i].lotIds = {} THEN 0 ELSE 1)
                 /\ Len(tasks[i].reqs)
                      = WritesTo(tasks[i], "articles") + WritesTo(tasks[i], "lots")
        /\ tasks[i].h = "dup"
              => /\ WritesTo(tasks[i], "articles") = tasks[i].nArts - Len(tasks[i].arts)
                 /\ WritesTo(tasks[i], "lots")
                      = tasks[i].nLots - Len(tasks[i].lots)
                          + (IF tasks[i].newLot = NULL THEN 0 ELSE 1)

\* a bulk operation over two articles and a lot is in flight with two
\* requests
C9_Witness ==
    \E i \in 1..Len(tasks) :
        /\ tasks[i].h = "bulk"
        /\ Cardinality(tasks[i].articleIds) = 2
        /\ tasks[i].lotIds # {}
        /\ Len(tasks[i].reqs) = 2

\* C10: the record a duplicate creates has the title of the original
\* followed by " (Copie)", status draft, no scheduled date, and nothing of
\* the original in the excluded columns.
CopyExcluded == {"created_at", "published_at", "vinted_url", "sold_at", "sold_price",
                 "net_profit", "fees", "shipping_cost", "buyer_name", "sale_notes",
                 "reference_number"}
C10_DuplicateFields ==
    last.h = "dupInserted"
      => LET new == IF last.type = "article" THEN dbArticles[last.newId]
                    ELSE dbLots[last.newId]
             label == IF last.type = "article" THEN "title" ELSE "name"
         IN /\ new[label] = last.src[label] \o " (Copie)"
            /\ new.status = "draft"
            /\ new.scheduled_for = NULL
            /\ \A c \in CopyExcluded : new[c] = ColumnDefault(c)

\* C11: the answered write of a mark-sold stores, on the one row of the
\* item, status sold, the sale payload as entered (with the seller when one
\* was chosen) and net_profit = soldPrice - fees - shippingCost (50, 5, 3
\* give 42); every other column of
\* the row and every other row is left as it was, and the handler has issued
\* exactly one request on that row.
C11_SoldWrite ==
    [][ last'.h = "soldPrimary"
          => LET it == last'.item
                 sale == last'.sale
                 old == IF it.kind = "article" THEN dbArticles[it.id] ELSE dbLots[it.id]
                 new == IF it.kind = "article" THEN dbArticles'[it.id] ELSE dbLots'[it.id]
             IN /\ new.status = "sold"
                /\ new.sold_price = sale.soldPrice
                /\ new.sold_at = sale.soldAt
                /\ new.fees = sale.fees
                /\ new.shipping_cost = sale.shippingCost
                /\ new.buyer_name = sale.buyerName
                /\ new.sale_notes = sale.notes
                /\ new.net_profit = sale.soldPrice - sale.fees - sale.shippingCost
                /\ (sale.soldPrice = 50 /\ sale.fees = 5 /\ sale.shippingCost = 3
                      => new.net_profit = 42)
                /\ new.seller_id = (IF sale.sellerId # NULL THEN sale.sellerId
                                     ELSE old.seller_id)
                /\ \A c \in DOMAIN old :
                      c \in SaleCols \cup {"status", "seller_id"} \/ new[c] = old[c]
                /\ \A id \in DOMAIN dbArticles :
                      (it.kind = "article" /\ id = it.id) \/ dbArticles'[id] = dbArticles[id]
                /\ \A id \in DOMAIN dbLots :
                      (it.kind = "lot" /\ id = it.id) \/ dbLots'[id] = dbLots[id]
                /\ \A i \in 1..Len(tasks') :
                      tasks'[i].h = "sold"
                        => Cardinality({j \in 1..Len(tasks'[i].reqs) :
                              tasks'[i].reqs[j].table = KindTable(tasks'[i].item.kind)
                                /\ tasks'[i].item.id \in tasks'[i].reqs[j].ids}) = 1
      ]_vars

\* a lot was marked sold for 50 with fees 5 and shipping 3
C11_Witness ==
    /\ last.h = "soldPrimary"
    /\ last.item.kind = "lot"
    /\ last.sale.soldPrice = 50
    /\ dbLots[last.item.id].net_profit = 42
    /\ dbLots[last.item.id].status = "sold"

\* C12: a handler step in which the fetch of the collections failed shows
\* an error notification and leaves the loaded collections as they were.
C12_FetchFailureToast ==
    (last.h \in {"saleDone", "dupDone"} /\ last.fetch = "err")
        => \E k \in 1..Len(last.toasts) : last.toasts[k] = "error"

\* the elements of a list
Range(list) == {list[k] : k \in 1..Len(list)}

\* pages 1 to n of a list, one after the other
RECURSIVE ConcatPages(_, _, _)
ConcatPages(list, n, size) ==
    IF n = 0 THEN <<>>
    ELSE ConcatPages(list, n - 1, size) \o Paginate(list, n, size)

\* the least number of pages of the given size that hold `length` items
CeilDiv(length, size) ==
    CHOOSE n \in 0..length : n * size >= length /\ \A m \in 0..length : m * size >= length => n <= m

\* C13: for every page size, the pages 1 to the page count of the filtered
\* and sorted collection, one after the other, are the collection itself,
\* and the page count is max(1, ceil(L / P)).
C13_PagesPartition ==
    \A size \in 1..MaxPageSize \cup {ITEMS_PER_PAGE} :
        LET list == FilteredItems
            n == TotalPages(Len(list), size)
        IN /\ n = Max(1, CeilDiv(Len(list), size))
           /\ ConcatPages(list, n, size) = list
           /\ \A k \in 1..n : Len(Paginate(list, k, size)) <= size
           /\ \A k \in 1..(n - 1) : Len(Paginate(list, k, size)) = size

\* three rows pass the filters and the second page shows the third
C13_Witness ==
    /\ Len(FilteredItems) = 3
    /\ sortColumn # ""
    /\ currentPage = 2
    /\ PaginatedItems = <<FilteredItems[3]>>

\* C14: every step that changes a filter dimension or the search term sets
\* the current page to 1.
C14_FilterChangeResetsPage ==
    [][filters' # filters => currentPage' = 1]_vars

\* C15: in the sorted collection no item without a value in the sort column
\* stands before an item that has one, in either direction.
C15_NullsLast ==
    sortColumn # ""
      => \A i, j \in 1..Len(FilteredItems) :
            i < j => ~(/\ IsNullValue(sortColumn, FilteredItems[i][sortColumn])
                       /\ ~IsNullValue(sortColumn, FilteredItems[j][sortColumn]))

\* the term, letter case aside, is a part of the text
ContainsFolded(text, term) ==
    \E off \in 0..(Len(text) - Len(term)) :
        \A k \in 1..Len(term) : LowerChar(text[off + k]) = LowerChar(term[k])
\* ... of the title, of the brand or of the reference number
MatchesSearch(item, term) ==
    \E field \in {"title", "brand", "reference_number"} :
        item[field] # NOTEXT /\ ContainsFolded(item[field], term)

\* C16: the filtered collection has only items of the unified collection,
\* each once, and has an item exactly when the item satisfies every active
\* dimension: type, status, seller, season and search.
C16_FilterConjunction ==
    LET result == FilteredItems
        all == UnifiedList
    IN /\ Range(result) \subseteq Range(all)
       /\ Cardinality(Range(result)) = Len(result)
       /\ \A item \in Range(all) :
             item \in Range(result)
               <=> /\ filters.type = "" \/ item.type = filters.type
                   /\ filters.status = "" \/ item.status = filters.status
                   /\ filters.seller = "" \/ item.seller_id = filters.seller
                   /\ filters.season = "" \/ item.season = filters.season
                   /\ filters.search = <<>> \/ MatchesSearch(item, filters.search)

\* type, season and search are active together and keep some rows but not all
C16_Witness ==
    /\ filters.type # ""
    /\ filters.season # ""
    /\ filters.search # <<>>
    /\ Len(FilteredItems) > 0
    /\ Len(FilteredItems) < Len(UnifiedList)

\* the rows of the scope that pass the status cards
PassStatus == {it \in ItemsInScope : statusFilters = {} \/ it.status \in statusFilters}

\* C17: with a non-empty search term, a row is in the table exactly when the
\* term, letter case aside, is a part of its title, of its brand or of its
\* reference number.
C17_SearchFields ==
    search # <<>>
      => \A it \in PassStatus : it \in FilteredTableItems <=> MatchesSearch(it, search)

\* C18: soldTransactions counts the rows in scope with status sold and a
\* sale date, sold counts the rows with status sold, and a row with status
\* sold and no sale date adds nothing to soldTransactions or to the revenue.
C18_SoldTransactions ==
    LET scope == ItemsInScope
        m == Metrics
    IN /\ m.soldTransactions
            = Cardinality({it \in scope : it.status = "sold" /\ it.sold_at # NULL})
       /\ m.sold = Cardinality({it \in scope : it.status = "sold"})
       /\ \A it \in scope :
             it.status = "sold" /\ it.sold_at = NULL
               => LET rest == ComputeMetrics(scope \ {it})
                  IN /\ rest.soldTransactions = m.soldTransactions
                     /\ rest.totalRevenue = m.totalRevenue
                     /\ rest.sold = m.sold - 1

\* a row in scope has status sold and no sale date, another one was sold
C18_Witness ==
    /\ \E it \in ItemsInScope : it.status = "sold" /\ it.sold_at = NULL
    /\ Metrics.soldTransactions > 0
    /\ Metrics.sold > Metrics.soldTransactions

C20_ScopeWindow ==
    \A it \in UnifiedOf(itemsAll) :
        it \in ItemsInScope
          <=> IF timeRange = "all" THEN TRUE
              ELSE LET date == DateField(it, dateMode)
                   IN /\ date # NULL
                      /\ ParseDate(date) >= now - GetRangeDays(timeRange)
                      /\ ParseDate(date) < now

\* C21: with a current window of N days, the previous scope holds exactly the
\* rows whose date of the chosen mode lies in the N days before the start of
\* the current window, and no row is in both scopes.
C21_PreviousWindow ==
    timeRange # "all"
      => LET n == GetRangeDays(timeRange)
         IN /\ ItemsInPrevScope
                 = {it \in UnifiedOf(itemsAll) :
                        LET date == DateField(it, dateMode)
                        IN /\ date # NULL
                           /\ ParseDate(date) >= period.end - 2 * n
                           /\ ParseDate(date) < period.end - n}
            /\ ItemsInPrevScope \cap ItemsInScope = {}

\* some figure of a leaderboard row is not zero
SomeMetric(x) ==
    \/ x.totalSales # 0
    \/ x.totalRevenue # 0
    \/ x.totalProfit # 0
    \/ x.averagePrice.num # 0
    \/ x.conversionRate.num # 0
    \/ x.itemsPublished # 0
    \/ x.itemsSold # 0

\* C22: every known seller has a row before the cleaning, and a row, of a
\* known seller or of the unassigned bucket, is in the leaderboard exactly
\* when one of its figures over the current scope is not zero.
C22_Leaderboard ==
    LET rows == SellerRows(ItemsInScope)
    IN /\ \A id \in DOMAIN MemberNameById : \E x \in rows : x.id = id
       /\ \A x \in rows : Cardinality({y \in rows : y.id = x.id}) = 1
       /\ \A x \in rows : x \in SellerStats <=> SomeMetric(x)
       /\ SellerStats \subseteq rows

\* a known seller with nothing but zeros is dropped, another known seller is
\* listed without a sale, and the unassigned bucket is listed
C22_Witness ==
    /\ \E id \in DOMAIN MemberNameById : \A x \in SellerStats : x.id # id
    /\ \E x \in SellerStats : x.id \in DOMAIN MemberNameById
    /\ \E x \in SellerStats : x.id = NoSeller /\ x.itemsPublished > 0 /\ x.itemsSold = 0

\* the statuses of a sold row
SoldStates == {"sold", "vendu_en_lot"}

\* C23: the profit shown by the grid page is the sum of the net profits of
\* the rows in a sold state; no row in another state adds to it.
C23_ProfitOfSoldOnly ==
    Stats.netProfit
        = SumNetProfit(articles, {id \in DOMAIN articles : articles[id].status \in SoldStates})
            + SumNetProfit(lots, {id \in DOMAIN lots : lots[id].status \in SoldStates})

\* C24: when a save completes while the edit session is on another cell,
\* the step leaves that session as it is.
C24_OtherSessionKept ==
    [][(/\ last'.h \in {"saveOk", "saveFailed"}
        /\ editState.rowId # NULL
        /\ ~(editState.rowId = last'.item.id /\ editState.field = last'.field))
         => editState' = editState]_vars

\* C25: a write is issued only by a session that has not issued one yet.
C25_OneWritePerSession ==
    [][last'.h = "saveIssued" => ~editState.isSaving]_vars

\* C26: when an edit request succeeds, the image shown is the new image and
\* the new image is the last entry of the history.
C26_NewImageShown ==
    [][last'.h = "editOk"
         => /\ CurrentImageOf(editHistory', historyIndex') = last'.image
            /\ editHistory'[Len(editHistory')] = last'.image]_vars

\* C29: the history index is at least 0 and less than the length of the
\* history, and the first entry of the history is the original image.
C29_IndexInHistory ==
    /\ 0 <= historyIndex
    /\ historyIndex < Len(editHistory)
    /\ editHistory[1] = ImageUrl

\* the local row and the remote row of a selected item agree on what the
\* bulk operation was to change
AgreesOn(op, local, remote, id) ==
    /\ id \in DOMAIN remote
    /\ id \in DOMAIN local
    /\ op # "delete" => remote[id][PatchCol(op)] = local[id][PatchCol(op)]

\* C27: when a bulk operation has ended in failure and no other operation is
\* in flight, the remote store has every selected item as the page has it,
\* and a failed duplication has left no row in the remote store that the
\* page does not have.
C27_FailureLeavesAgreement ==
    /\ (tasks = <<>> /\ last.h = "bulkFailed")
         => /\ \A id \in last.articleIds : AgreesOn(last.op, articles, dbArticles, id)
            /\ \A id \in last.lotIds : AgreesOn(last.op, lots, dbLots, id)
    /\ (tasks = <<>> /\ last.h \in {"dupFailed", "dupFailedAfterLot"})
         => /\ DOMAIN dbArticles = DOMAIN articles
            /\ DOMAIN dbLots = DOMAIN lots

\* C28: in the catalog grid the current page number stays between 1 and the
\* page count whenever the filtered collection is not empty, so that the
\* page shown has at least one row
C28_PageInRange ==
    Len(FilteredItems) > 0
        => /\ 1 <= currentPage
           /\ currentPage <= TotalPages(Len(FilteredItems), ITEMS_PER_PAGE)
           /\ PaginatedItems # <<>>

====
